---- MODULE Spec2Model ----
(***************************************************************************)
(* A model of the software rasterizer of src/shaders/src/main.rs: the     *)
(* colour value type, the noise engine, the ring shader, the two triangle *)
(* rasterizers (opaque with depth test, translucent with alpha blending)  *)
(* and the three frame compositors.                                        *)
(*                                                                         *)
(* Numbers.  The program computes in f32.  World coordinates are modelled *)
(* as integers in units of 1/scale (scale = 200), so that a projected     *)
(* vertex is an integer pixel and every rasterizer quantity (dot          *)
(* products, barycentric weights, interpolated positions and depths) is   *)
(* an exact rational; those are kept as IEEE-style extended values        *)
(* (finite fraction, +inf, -inf, NaN) so that a division by zero behaves  *)
(* as it does in the program.  Quantities that pass through sqrt or sin   *)
(* (normals, light intensity, noise, alpha) are kept in fixed point with  *)
(* three decimals (Milli).                                                 *)
(***************************************************************************)
EXTENDS Integers, Sequences, FiniteSets, TLC

VARIABLES
    pc,         \* position of the running operation
    entry,      \* the render entry point being executed (compositor)
    input,      \* the inputs of the running operation
    buffer,     \* colour buffer: [len, cells], cells holds the written cells
    z_buffer,   \* depth buffer: [len, cells]; an absent cell is NEG_INFINITY
    step,       \* index into the triangle sequence of the running render
    log,        \* what the last rasterizer call did (per pixel)
    hist,       \* ghost: the triangles submitted so far, in order
    out         \* result of the last pure-function application

vars == <<pc, entry, input, buffer, z_buffer, step, log, hist, out>>

(***************************************************************************)
(* Program constants                                                       *)
(***************************************************************************)
WIDTH == 800
HEIGHT == 800
scale == 200
\* fixed-point unit of the quantities kept with three decimals
Milli == 10 * 10 * 10
\* std::f32::consts::PI, in Milli
PI == 3142

\* Every operator binds its arguments to their values before it uses them,
\* so that an argument is evaluated once: The({e : a \in {a_}}) is e with a
\* bound to the value of a_.
The(S) == CHOOSE x \in S : TRUE

Min2(a_, b_) == The({(IF a < b THEN a ELSE b) : a \in {a_}, b \in {b_}})
Max2(a_, b_) == The({(IF a > b THEN a ELSE b) : a \in {a_}, b \in {b_}})
Abs(a_) == The({(IF a < 0 THEN -a ELSE a) : a \in {a_}})
Sign(a_) == The({(IF a < 0 THEN -1 ELSE IF a > 0 THEN 1 ELSE 0) : a \in {a_}})

RECURSIVE GCD(_, _)
GCD(a_, b_) ==
    The({(IF b = 0 THEN a ELSE GCD(b, a % b)) : a \in {a_}, b \in {b_}})

\* Division truncating toward zero (a float-to-integer cast, f32::trunc).
TDiv(a_, b_) ==
    The({(Sign(a) * Sign(b) * (Abs(a) \div Abs(b))) : a \in {a_}, b \in {b_}})

\* floor(sqrt(n)), bit by bit
RECURSIVE ISqrtBits(_, _, _)
ISqrtBits(n_, r_, b_) ==
    The({(
    IF b = 0 THEN r
    ELSE IF (r + b) * (r + b) <= n THEN ISqrtBits(n, r + b, b \div 2)
         ELSE ISqrtBits(n, r, b \div 2)
    ) : n \in {n_}, r \in {r_}, b \in {b_}})
ISqrt(n) == ISqrtBits(n, 0, 16384)

(***************************************************************************)
(* Extended values: the f32 results the rasterizer can produce.            *)
(***************************************************************************)
NaN == [k |-> "nan"]
PInf == [k |-> "inf", s |-> 1]
NInf == [k |-> "inf", s |-> -1]
Fin(n_, d_) ==
    The({(
    LET g == GCD(Abs(n), Abs(d))
    IN  [k |-> "fin", n |-> Sign(d) * (n \div g), d |-> Abs(d) \div g]
    ) : n \in {n_}, d \in {d_}})
FInt(n) == [k |-> "fin", n |-> n, d |-> 1]
IsFin(a) == a.k = "fin"
FSign(a_) == The({(IF a.k = "fin" THEN Sign(a.n) ELSE a.s) : a \in {a_}})

\* 1.0 / x for a finite x (x / 0 is +inf: the denominator is a difference,
\* which is +0 when it vanishes)
FInv(a_) == The({(IF a.n = 0 THEN PInf ELSE Fin(a.d, a.n)) : a \in {a_}})

FMul(a_, b_) ==
    The({(
    IF a.k = "nan" \/ b.k = "nan" THEN NaN
    ELSE IF a.k = "fin" /\ b.k = "fin" THEN Fin(a.n * b.n, a.d * b.d)
    ELSE IF FSign(a) * FSign(b) = 0 THEN NaN
    ELSE IF FSign(a) * FSign(b) > 0 THEN PInf ELSE NInf
    ) : a \in {a_}, b \in {b_}})

FAdd(a_, b_) ==
    The({(
    IF a.k = "nan" \/ b.k = "nan" THEN NaN
    ELSE IF a.k = "fin" /\ b.k = "fin" THEN Fin(a.n * b.d + b.n * a.d, a.d * b.d)
    ELSE IF a.k = "inf" /\ b.k = "inf" THEN (IF a.s = b.s THEN a ELSE NaN)
    ELSE IF a.k = "inf" THEN a ELSE b
    ) : a \in {a_}, b \in {b_}})

FNeg(a_) ==
    The({(
    IF a.k = "nan" THEN NaN
    ELSE IF a.k = "fin" THEN [a EXCEPT !.n = -a.n]
    ELSE [a EXCEPT !.s = -a.s]
    ) : a \in {a_}})

FSub(a, b) == FAdd(a, FNeg(b))

\* a > b; false whenever a NaN is involved
FGt(a_, b_) ==
    The({(
    IF a.k = "nan" \/ b.k = "nan" THEN FALSE
    ELSE IF a.k = "fin" /\ b.k = "fin" THEN a.n * b.d > b.n * a.d
    ELSE IF a.k = "inf" /\ b.k = "inf" THEN a.s > b.s
    ELSE IF a.k = "inf" THEN a.s > 0 ELSE b.s < 0
    ) : a \in {a_}, b \in {b_}})

FEq(a_, b_) ==
    The({(
    IF a.k = "nan" \/ b.k = "nan" THEN FALSE ELSE a = b
    ) : a \in {a_}, b \in {b_}})

FGe(a_, b_) == The({(FGt(a, b) \/ FEq(a, b)) : a \in {a_}, b \in {b_}})
FLe(a, b) == FGe(b, a)

NEG_INFINITY == NInf

\* The f32 nearest to a whole number: 24 significant bits, ties to even.
\* Whole numbers below 2^24 are f32 values themselves.
RECURSIVE RoundBits(_)
RoundBits(n_) ==
    The({(IF n < 2^24 THEN 0 ELSE 1 + RoundBits(n \div 2)) : n \in {n_}})
RoundF32(n_) ==
    The({(
    LET k == RoundBits(Abs(n))
        q == Abs(n) \div 2^k
        r == Abs(n) % 2^k
    IN  IF k = 0 THEN n
        ELSE Sign(n) * 2^k
             * (IF 2 * r > 2^k \/ (2 * r = 2^k /\ q % 2 = 1) THEN q + 1 ELSE q)
    ) : n \in {n_}})

(***************************************************************************)
(* f32::clamp, sin and cos in fixed point.  sin is Bhaskara's rational     *)
(* approximation (error below 0.002), the only place where the model's     *)
(* value differs from the program's by more than rounding.                 *)
(***************************************************************************)
Clamp(x_, lo_, hi_) ==
    The({(
    IF x < lo THEN lo ELSE IF x > hi THEN hi ELSE x
    ) : x \in {x_}, lo \in {lo_}, hi \in {hi_}})

SinHalf(y_) ==
    The({(
    LET a == y * (PI - y)
    IN  (16 * Milli * (a \div 64)) \div ((5 * PI * PI - 4 * a) \div 64)
    ) : y \in {y_}})
SinMilli(x) ==
    LET y == x % (2 * PI)
    IN  IF y <= PI THEN SinHalf(y) ELSE -SinHalf(y - PI)
    
CosMilli(x) == SinMilli(x + PI \div 2)

(***************************************************************************)
(* Color                                                                   *)
(***************************************************************************)
Color(r, g, b) == [r |-> r, g |-> g, b |-> b]

\* `as u8` of a non-negative value: saturating
AsU8(x) == Clamp(x, 0, 255)

\* Color::from_float; the channels are given in Milli
from_float(r, g, b) ==
    Color(AsU8(TDiv(Clamp(r, 0, Milli) * 255, Milli)),
          AsU8(TDiv(Clamp(g, 0, Milli) * 255, Milli)),
          AsU8(TDiv(Clamp(b, 0, Milli) * 255, Milli)))
    

\* (mutant) Color::mix without the clamp of t
mixUnclamped(self_, other_, t0_) ==
    The({(
    Color(AsU8(TDiv(self.r * (Milli - t0) + other.r * t0, Milli)),
          AsU8(TDiv(self.g * (Milli - t0) + other.g * t0, Milli)),
          AsU8(TDiv(self.b * (Milli - t0) + other.b * t0, Milli)))
    ) : self \in {self_}, other \in {other_}, t0 \in {t0_}})

MixChannel(a_, b_, t_) ==
    The({(
    AsU8(TDiv(a * (Milli - t) + b * t, Milli))
    ) : a \in {a_}, b \in {b_}, t \in {t_}})

\* Color::mix; t in Milli
mix(self_, other_, t0_) ==
    The({(
    LET t == Clamp(t0, 0, Milli)
    IN  Color(MixChannel(self.r, other.r, t),
              MixChannel(self.g, other.g, t),
              MixChannel(self.b, other.b, t))
    ) : self \in {self_}, other \in {other_}, t0 \in {t0_}})

to_u32(c_) == The({(c.r * 65536 + c.g * 256 + c.b) : c \in {c_}})

\* the unpacking of a buffer cell (>> 16 & 0xFF, >> 8 & 0xFF, & 0xFF)
Unpack(p_) ==
    The({(
    Color((p \div 65536) % 256, (p \div 256) % 256, p % 256)
    ) : p \in {p_}})

(***************************************************************************)
(* Vec3 over integers (vertices, in units of 1/scale)                      *)
(***************************************************************************)
Vec3(x, y, z) == [x |-> x, y |-> y, z |-> z]
dot(a_, b_) ==
    The({(a.x * b.x + a.y * b.y + a.z * b.z) : a \in {a_}, b \in {b_}})
cross(a_, b_) ==
    The({(
    Vec3(a.y * b.z - a.z * b.y,
                    a.z * b.x - a.x * b.z,
                    a.x * b.y - a.y * b.x)
    ) : a \in {a_}, b \in {b_}})
add(a_, b_) ==
    The({(Vec3(a.x + b.x, a.y + b.y, a.z + b.z)) : a \in {a_}, b \in {b_}})
sub(a_, b_) ==
    The({(Vec3(a.x - b.x, a.y - b.y, a.z - b.z)) : a \in {a_}, b \in {b_}})

\* (mutant) a zero-length vector replaced by the z axis
normalizeFallbackAxis(a_) ==
    The({(
    LET len == ISqrt(dot(a, a) * 100)
    IN  IF len > 0
        THEN Vec3(TDiv(a.x * 10 * Milli, len), TDiv(a.y * 10 * Milli, len),
                  TDiv(a.z * 10 * Milli, len))
        ELSE Vec3(0, 0, Milli)
    ) : a \in {a_}})

\* Vec3::normalize: the unit vector in Milli, the zero vector for length 0
normalize(a_) ==
    The({(
    LET len == ISqrt(dot(a, a) * 100)
    IN  IF len > 0
        THEN Vec3(TDiv(a.x * 10 * Milli, len), TDiv(a.y * 10 * Milli, len),
                  TDiv(a.z * 10 * Milli, len))
        ELSE Vec3(0, 0, 0)
    ) : a \in {a_}})

\* Vec3::rotate_y for an angle of q quarter turns (cos and sin are 0, 1, -1)
QCos(q_) ==
    The({(IF q % 4 = 0 THEN 1 ELSE IF q % 4 = 2 THEN -1 ELSE 0) : q \in {q_}})
QSin(q_) ==
    The({(IF q % 4 = 1 THEN 1 ELSE IF q % 4 = 3 THEN -1 ELSE 0) : q \in {q_}})
rotate_y(a_, q_) ==
    The({(
    Vec3(a.x * QCos(q) + a.z * QSin(q), a.y, -a.x * QSin(q) + a.z * QCos(q))
    ) : a \in {a_}, q \in {q_}})

(***************************************************************************)
(* Noise engine; positions and results in Milli                            *)
(***************************************************************************)
\* f32::fract: x - trunc(x), which keeps the sign of x
Fract(x_) == The({(x - TDiv(x, Milli) * Milli) : x \in {x_}})

\* s * (k + m / 10000) for a sine s in Milli
SinTimes(s_, k_, m_) ==
    The({(s * k + TDiv(s * m, 10000)) : s \in {s_}, k \in {k_}, m \in {m_}})
noise_3d(p_) ==
    The({(
    Fract(SinTimes(SinMilli(p.x), 43758, 5453)
          + SinTimes(SinMilli(p.y), 22578, 1459)
          + SinTimes(SinMilli(p.z), 19134, 3872))
    ) : p \in {p_}})

\* amplitudes are kept in units of 1/AmpUnit, so that halving is exact
AmpUnit == 256 * 256

RECURSIVE fbmLoop(_, _, _, _, _, _)
fbmLoop(p_, n_, value_, amplitude_, frequency_, max_value_) ==
    The({(
    IF n = 0 THEN TDiv(value, max_value)
    ELSE fbmLoop(p, n - 1,
                 value + noise_3d(Vec3(p.x * frequency, p.y * frequency,
                                       p.z * frequency)) * amplitude,
                 amplitude \div 2, frequency * 2, max_value + amplitude)
    ) : p \in {p_}, n \in {n_}, value \in {value_}, amplitude \in {amplitude_}, frequency \in {frequency_}, max_value \in {max_value_}})
fbm(p, octaves) ==
    fbmLoop(p, octaves, 0, AmpUnit \div 2, 1, 0)
    

RECURSIVE turbulenceLoop(_, _, _, _, _)
turbulenceLoop(p_, n_, value_, amplitude_, frequency_) ==
    The({(
    IF n = 0 THEN TDiv(value, AmpUnit)
    ELSE turbulenceLoop(p, n - 1,
             value + Abs(noise_3d(Vec3(p.x * frequency, p.y * frequency,
                                       p.z * frequency)) * 2 - Milli) * amplitude,
             amplitude \div 2, frequency * 2)
    ) : p \in {p_}, n \in {n_}, value \in {value_}, amplitude \in {amplitude_}, frequency \in {frequency_}})
turbulence(p, octaves) ==
    turbulenceLoop(p, octaves, 0, AmpUnit, 1)
    

(***************************************************************************)
(* Fragment and shaders.  A fragment's position is a vector of extended    *)
(* values in units of 1/scale; shaders read it in Milli.                   *)
(***************************************************************************)
MulM(a, b) == TDiv(a * b, Milli)
ToMilli(f_) == The({(TDiv(f.n * Milli, f.d * scale)) : f \in {f_}})
PosMilli(position_) ==
    The({(
    Vec3(ToMilli(position.x), ToMilli(position.y), ToMilli(position.z))
    ) : position \in {position_}})

Fragment(position, normal, intensity, time) ==
    [position |-> position, normal |-> normal, intensity |-> intensity,
     time |-> time]
    

inner_radius == 1300
outer_radius == 2000

\* (mutant) alpha without its final clamp
RingAlphaUnclamped(radius, gap_effect, particles) ==
    MulM(MulM(TDiv((outer_radius - radius) * Milli, outer_radius - inner_radius),
              gap_effect), particles)
    

\* ((outer - radius) / (outer - inner)) * gap_effect * particles, clamped
RingAlpha(radius, gap_effect, particles) ==
    Clamp(MulM(MulM(TDiv((outer_radius - radius) * Milli,
                         outer_radius - inner_radius),
                    gap_effect), particles),
          300, 950)
    

\* lines 336-376 of ring_shader, for a fragment inside the band: the colour
\* and the alpha from the radius and the two noise samples
RingBaseColor(band_pattern_) ==
    The({(
    LET ring_color1 == from_float(900, 800, 600)
        ring_color2 == from_float(700, 600, 400)
        ring_color3 == from_float(500, 400, 300)
    IN  IF band_pattern < 300
        THEN mix(ring_color1, ring_color2, MulM(band_pattern, 3300))
        ELSE IF band_pattern < 700
        THEN mix(ring_color2, ring_color3, MulM(band_pattern - 300, 2500))
        ELSE mix(ring_color3, ring_color1, MulM(band_pattern - 700, 3300))
    ) : band_pattern \in {band_pattern_}})
RingLit(base_color_, brightness_) ==
    The({(
    from_float(MulM(TDiv(base_color.r * Milli, 255), brightness),
               MulM(TDiv(base_color.g * Milli, 255), brightness),
               MulM(TDiv(base_color.b * Milli, 255), brightness))
    ) : base_color \in {base_color_}, brightness \in {brightness_}})
RingBand(radius_, gaps_, particles_, intensity_) ==
    The({(
    [color |-> RingLit(RingBaseColor(SinMilli(radius * 15) \div 2 + 500),
                       MulM(intensity, 600 + MulM(particles, 400))),
     alpha |-> RingAlpha(radius, IF gaps > 700 THEN 300 ELSE Milli, particles)]
    ) : radius \in {radius_}, gaps \in {gaps_}, particles \in {particles_}, intensity \in {intensity_}})

\* radius < inner_radius || radius > outer_radius, decided on the squares
\* (sqrt is monotonic), so that the band's edges are exact
OutOfBand(p_) ==
    The({(
    LET r2 == p.x * p.x + p.z * p.z
    IN  r2 < inner_radius * inner_radius \/ r2 > outer_radius * outer_radius
    ) : p \in {p_}})

\* ring_shader for given values of its two noise samples
RingShaderWith(p_, intensity_, gaps_, particles_) ==
    The({(
    IF OutOfBand(p)
    THEN [color |-> Color(0, 0, 0), alpha |-> 0]
    ELSE RingBand(ISqrt(p.x * p.x + p.z * p.z), gaps, particles, intensity)
    ) : p \in {p_}, intensity \in {intensity_}, gaps \in {gaps_}, particles \in {particles_}})

RingAt(p_, intensity_) ==
    The({(
    RingShaderWith(p, intensity, fbm(Vec3(p.x * 8, 0, p.z * 8), 3),
                   noise_3d(Vec3(p.x * 25, 0, p.z * 25)))
    ) : p \in {p_}, intensity \in {intensity_}})

ring_shader(fragment_) ==
    The({(
    RingAt(PosMilli(fragment.position), fragment.intensity)
    ) : fragment \in {fragment_}})

Cube(x_) == The({(TDiv(x * x * x, Milli * Milli)) : x \in {x_}})

\* sun_shader from its turbulence sample, flare and corona terms
SunColor(radial_normalized_, plasma_, flares_, corona_, intensity_) ==
    The({(
    LET core_color == from_float(1000, 1000, 900)
        surface_color == from_float(1000, 600, 100)
        edge_color == from_float(1000, 200, 0)
        base_color ==
            IF radial_normalized < 500
            THEN mix(core_color, surface_color, radial_normalized * 2)
            ELSE mix(surface_color, edge_color, (radial_normalized - 500) * 2)
        brightness ==
            MulM(intensity,
                 600 + MulM(plasma, 300) + MulM(flares, 500) + MulM(corona, 800))
    IN  from_float(
            MulM(MulM(TDiv(base_color.r * Milli, 255), brightness),
                 Milli + MulM(corona, 500)),
            MulM(MulM(TDiv(base_color.g * Milli, 255), brightness),
                 Milli + MulM(flares, 300)),
            MulM(MulM(TDiv(base_color.b * Milli, 255), brightness),
                 Milli + MulM(plasma, 200)))
    ) : radial_normalized \in {radial_normalized_}, plasma \in {plasma_}, flares \in {flares_}, corona \in {corona_}, intensity \in {intensity_}})

SunAt(p_, fragment_) ==
    The({(
    SunColor(Clamp(ISqrt(p.x * p.x + p.y * p.y + p.z * p.z) * 2, 0, Milli),
             turbulence(Vec3(p.x * 3, p.y * 3 + fragment.time \div 2, p.z * 3), 4),
             Cube(noise_3d(Vec3(p.x * 8 + TDiv(fragment.time * 8, 10),
                                p.y * 8, p.z * 8))),
             Cube(Milli - Abs(fragment.normal.z)),
             fragment.intensity)
    ) : p \in {p_}, fragment \in {fragment_}})

sun_shader(fragment_) ==
    The({(
    SunAt(PosMilli(fragment.position), fragment)
    ) : fragment \in {fragment_}})

\* the darkening of a crater from the turbulence sample
CraterDepth(craters_) ==
    The({(
    IF craters > 700 THEN Clamp(MulM(craters - 700, 3300), 0, Milli) ELSE 0
    ) : craters \in {craters_}})

\* base colour with craters: mix(base_color, crater_color, crater_depth * 0.6)
MoonSurface(surface_variation_, crater_depth_) ==
    The({(
    LET base_gray == from_float(500, 500, 500)
        dark_gray == from_float(300, 300, 300)
        light_gray == from_float(700, 700, 700)
        crater_color == from_float(200, 200, 200)
        base_color ==
            IF surface_variation < 400
            THEN mix(dark_gray, base_gray, MulM(surface_variation, 2500))
            ELSE mix(base_gray, light_gray, MulM(surface_variation - 400, 1670))
    IN  mix(base_color, crater_color, MulM(crater_depth, 600))
    ) : surface_variation \in {surface_variation_}, crater_depth \in {crater_depth_}})

\* the fine detail added: channel / 255 + detail - 0.075, clamped
MoonDetail(c1_, detail_) ==
    The({(
    from_float(Clamp(TDiv(c1.r * Milli, 255) + detail - 75, 0, Milli),
               Clamp(TDiv(c1.g * Milli, 255) + detail - 75, 0, Milli),
               Clamp(TDiv(c1.b * Milli, 255) + detail - 75, 0, Milli))
    ) : c1 \in {c1_}, detail \in {detail_}})

\* the final colour: channel / 255 * brightness
MoonLit(c2_, brightness_) ==
    The({(
    from_float(MulM(TDiv(c2.r * Milli, 255), brightness),
               MulM(TDiv(c2.g * Milli, 255), brightness),
               MulM(TDiv(c2.b * Milli, 255), brightness))
    ) : c2 \in {c2_}, brightness \in {brightness_}})

MoonAt(p_, intensity_) ==
    The({(
    MoonLit(MoonDetail(MoonSurface(fbm(Vec3(p.x * 4, p.y * 4, p.z * 4), 4),
                                   CraterDepth(turbulence(Vec3(p.x * 12, p.y * 12,
                                                               p.z * 12), 4))),
                       MulM(noise_3d(Vec3(p.x * 30, p.y * 30, p.z * 30)), 150)),
            MulM(intensity, 300 + MulM(700, intensity)))
    ) : p \in {p_}, intensity \in {intensity_}})

moon_shader(fragment_) ==
    The({(
    MoonAt(PosMilli(fragment.position), fragment.intensity)
    ) : fragment \in {fragment_}})

\* the shading functions passed as `shader`
Shaders == {"sun", "moon"}
Shade(shader_, fragment_) ==
    The({(
    IF shader = "sun" THEN sun_shader(fragment) ELSE moon_shader(fragment)
    ) : shader \in {shader_}, fragment \in {fragment_}})

(***************************************************************************)
(* Rasterizer core                                                         *)
(***************************************************************************)
center_x == WIDTH \div 2
center_y == HEIGHT \div 2

\* (mutant) the projection without the offset to the image centre
ProjectUncentred(v_) ==
    The({([x |-> v.x, y |-> -v.y]) : v \in {v_}})

\* the orthographic projection: (center_x + v.x * scale, center_y - v.y * scale)
Project(v_) ==
    The({([x |-> center_x + v.x, y |-> center_y - v.y]) : v \in {v_}})

\* `as usize` of a float: saturating at 0
AsUsize(x_) == The({(IF x < 0 THEN 0 ELSE x) : x \in {x_}})

\* (mutant) the bounding box without the clamps to the image
BBoxUnclamped(p1_, p2_, p3_) ==
    The({(
    [min_x |-> AsUsize(Min2(Min2(p1.x, p2.x), p3.x)),
     max_x |-> AsUsize(Max2(Max2(p1.x, p2.x), p3.x)),
     min_y |-> AsUsize(Min2(Min2(p1.y, p2.y), p3.y)),
     max_y |-> AsUsize(Max2(Max2(p1.y, p2.y), p3.y))]
    ) : p1 \in {p1_}, p2 \in {p2_}, p3 \in {p3_}})

\* lines 675-678: min(..).max(0.0) as usize and max(..).min(WIDTH - 1) as usize
BBox(p1_, p2_, p3_) ==
    The({(
    [min_x |-> AsUsize(Max2(Min2(Min2(p1.x, p2.x), p3.x), 0)),
     max_x |-> AsUsize(Min2(Max2(Max2(p1.x, p2.x), p3.x), WIDTH - 1)),
     min_y |-> AsUsize(Max2(Min2(Min2(p1.y, p2.y), p3.y), 0)),
     max_y |-> AsUsize(Min2(Max2(Max2(p1.y, p2.y), p3.y), HEIGHT - 1))]
    ) : p1 \in {p1_}, p2 \in {p2_}, p3 \in {p3_}})

\* the pixels the two nested loops visit
BBoxPixels(p1, p2, p3) ==
    LET bb == BBox(p1, p2, p3)
    IN  {[x |-> x, y |-> y] : x \in bb.min_x .. bb.max_x, y \in bb.min_y .. bb.max_y}
    

\* a.x * b.x + a.y * b.y in f32: every product and the sum are rounded
Dot2(a_, b_) ==
    The({(
    RoundF32(RoundF32(a.x * b.x) + RoundF32(a.y * b.y))
    ) : a \in {a_}, b \in {b_}})
\* a * b - c * d in f32
DiffOfProducts(a, b, c, d) ==
    RoundF32(RoundF32(a * b) - RoundF32(c * d))
    

\* the barycentric weights of pixel (px, py), by the dot-product method.
\* On whole pixel coordinates the dot products and the three differences of
\* products are whole numbers, rounded as f32 rounds them.  The weights u,
\* v that the position is interpolated with are kept as the exact quotients
\* nu / den and nv / den; the inside test rounds 1.0 / den and the two
\* products with it as f32 does.
Weights(nu_, nv_, den_) ==
    The({(
    [u |-> FMul(FInt(nu), FInv(FInt(den))), v |-> FMul(FInt(nv), FInv(FInt(den))),
     nu |-> nu, nv |-> nv, den |-> den]
    ) : nu \in {nu_}, nv \in {nv_}, den \in {den_}})
Barycentric(p1_, p2_, p3_, px_, py_) ==
    The({(
    LET v0 == [x |-> p2.x - p1.x, y |-> p2.y - p1.y]
        v1_local == [x |-> p3.x - p1.x, y |-> p3.y - p1.y]
        v2_local == [x |-> px - p1.x, y |-> py - p1.y]
        dot00 == Dot2(v0, v0)
        dot01 == Dot2(v0, v1_local)
        dot02 == Dot2(v0, v2_local)
        dot11 == Dot2(v1_local, v1_local)
        dot12 == Dot2(v1_local, v2_local)
    IN  Weights(DiffOfProducts(dot11, dot02, dot01, dot12),
                DiffOfProducts(dot00, dot12, dot01, dot02),
                DiffOfProducts(dot00, dot11, dot01, dot01))
    ) : p1 \in {p1_}, p2 \in {p2_}, p3 \in {p3_}, px \in {px_}, py \in {py_}})

\* The inside test in f32.  A value is m * 2^e with m below 2^24.
\* the number of bits of n
RECURSIVE BitLen(_)
BitLen(n) == IF n = 0 THEN 0 ELSE 1 + BitLen(n \div 2)

\* i more quotient bits of the long division by den
RECURSIVE InvDigits(_, _, _, _)
InvDigits(den_, q_, r_, i_) ==
    The({(
    IF i = 0 THEN [q |-> q, r |-> r]
    ELSE IF 2 * r >= den THEN InvDigits(den, 2 * q + 1, 2 * r - den, i - 1)
    ELSE InvDigits(den, 2 * q, 2 * r, i - 1)
    ) : den \in {den_}, q \in {q_}, r \in {r_}, i \in {i_}})
\* the quotient 2^(k + 24) / den rounded to nearest, ties to even
InvRound(den_, k_, d_) ==
    The({(
    LET q == IF 2 * d.r > den \/ (2 * d.r = den /\ d.q % 2 = 1)
             THEN d.q + 1 ELSE d.q
    IN  IF q = 2^24 THEN [m |-> 2^23, e |-> -(k + 23)]
        ELSE [m |-> q, e |-> -(k + 24)]
    ) : den \in {den_}, k \in {k_}, d \in {d_}})
\* 1.0 / den for a whole number den > 0
F32InvOf(den_, k_) ==
    The({(
    InvRound(den, k, IF den = 2^k THEN InvDigits(den, 1, 0, 24)
                     ELSE InvDigits(den, 0, 2^k, 24))
    ) : den \in {den_}, k \in {k_}})
F32Inv(den_) == The({(F32InvOf(den, BitLen(den) - 1)) : den \in {den_}})

\* a whole f32 number n as n' * 2^t with n' below 2^24
RECURSIVE StripZeros(_, _)
StripZeros(n_, t_) ==
    The({(
    IF n < 2^24 THEN [n |-> n, t |-> t] ELSE StripZeros(n \div 2, t + 1)
    ) : n \in {n_}, t \in {t_}})

\* the 48-bit product H * 2^24 + L rounded to 24 bits, times 2^e
RoundProduct(H_, L_, e_, s_) ==
    The({(
    LET M == H * 2^s + L \div 2^(24 - s)
        rem == L % 2^(24 - s)
        half == 2^(24 - s) \div 2
    IN  IF H = 0 THEN [m |-> L, e |-> e]
        ELSE [m |-> IF rem > half \/ (rem = half /\ s < 24 /\ M % 2 = 1)
                    THEN M + 1 ELSE M,
              e |-> e + 24 - s]
    ) : H \in {H_}, L \in {L_}, e \in {e_}, s \in {s_}})
\* the product of two numbers below 2^24 from their 12-bit halves
MulHalves(nh_, nl_, mh_, ml_, e_) ==
    The({(
    LET mid == nh * ml + nl * mh
        lt == (mid % 4096) * 4096 + nl * ml
        H == nh * mh + mid \div 4096 + lt \div 2^24
    IN  RoundProduct(H, lt % 2^24, e, 24 - BitLen(H))
    ) : nh \in {nh_}, nl \in {nl_}, mh \in {mh_}, ml \in {ml_}, e \in {e_}})
\* n * f in f32, for a whole number n >= 0 and f = m * 2^e
F32MulStripped(n_, f_) ==
    The({(
    MulHalves(n.n \div 4096, n.n % 4096, f.m \div 4096, f.m % 4096, f.e + n.t)
    ) : n \in {n_}, f \in {f_}})
F32Mul(n_, f_) ==
    The({(
    IF n = 0 THEN [m |-> 0, e |-> 0] ELSE F32MulStripped(StripZeros(n, 0), f)
    ) : n \in {n_}, f \in {f_}})

\* a value a >= 0 in units of 2^-24: the whole part, whether a fraction is
\* left, and whether a is 2 or more
Floor24(a_) ==
    The({(
    IF a.m = 0 THEN [i |-> 0, frac |-> FALSE, big |-> FALSE]
    ELSE IF a.e + 24 >= 0
    THEN IF BitLen(a.m) + a.e + 24 > 25
         THEN [i |-> 0, frac |-> FALSE, big |-> TRUE]
         ELSE [i |-> a.m * 2^(a.e + 24), frac |-> FALSE, big |-> FALSE]
    ELSE IF -(a.e + 24) >= 30 THEN [i |-> 0, frac |-> TRUE, big |-> FALSE]
    ELSE [i |-> a.m \div 2^(-(a.e + 24)),
          frac |-> a.m % 2^(-(a.e + 24)) # 0, big |-> FALSE]
    ) : a \in {a_}})
\* u + v <= 1.0 for u, v >= 0: the rounded sum is at most 1.0 iff the exact
\* sum is at most 1 + 2^-24
SumAtMostOne(a_, b_) ==
    The({(
    /\ ~a.big /\ ~b.big
    /\ \/ a.i + b.i < 2^24 + 1
       \/ (a.i + b.i = 2^24 + 1 /\ ~a.frac /\ ~b.frac)
    ) : a \in {a_}, b \in {b_}})
F32InsideWith(nu_, nv_, inv_) ==
    The({(
    SumAtMostOne(Floor24(F32Mul(nu, inv)), Floor24(F32Mul(nv, inv)))
    ) : nu \in {nu_}, nv \in {nv_}, inv \in {inv_}})

\* (mutant) an inside test that excludes the edges u = 0 and v = 0
InsideStrict(w_) ==
    The({(
    /\ w.den # 0
    /\ w.nu * Sign(w.den) > 0
    /\ w.nv * Sign(w.den) > 0
    /\ F32InsideWith(Abs(w.nu), Abs(w.nv), F32Inv(Abs(w.den)))
    ) : w \in {w_}})

\* u >= 0.0 && v >= 0.0 && u + v <= 1.0, where u = nu * inv_denom and
\* v = nv * inv_denom; with a zero denominator inv_denom is infinite and u,
\* v are infinite or NaN: the test fails.  A zero of either sign passes
\* u >= 0.0.
Inside(w_) ==
    The({(
    /\ w.den # 0
    /\ w.nu * Sign(w.den) >= 0
    /\ w.nv * Sign(w.den) >= 0
    /\ F32InsideWith(Abs(w.nu), Abs(w.nv), F32Inv(Abs(w.den)))
    ) : w \in {w_}})

\* (mutant) the interpolation applied to the projected points
InterpolateProjected(v1_, edge1_, edge2_, w_) ==
    The({(
    [x |-> FAdd(FAdd(FInt(center_x + v1.x), FMul(FInt(edge1.x), w.u)),
                FMul(FInt(edge2.x), w.v)),
     y |-> FAdd(FAdd(FInt(center_y - v1.y), FMul(FInt(-edge1.y), w.u)),
                FMul(FInt(-edge2.y), w.v)),
     z |-> FAdd(FAdd(FInt(v1.z), FMul(FInt(edge1.z), w.u)), FMul(FInt(edge2.z), w.v))]
    ) : v1 \in {v1_}, edge1 \in {edge1_}, edge2 \in {edge2_}, w \in {w_}})

\* v1.add(&edge1.mul(u)).add(&edge2.mul(v))
Interpolate(v1_, edge1_, edge2_, w_) ==
    The({(
    [x |-> FAdd(FAdd(FInt(v1.x), FMul(FInt(edge1.x), w.u)), FMul(FInt(edge2.x), w.v)),
     y |-> FAdd(FAdd(FInt(v1.y), FMul(FInt(edge1.y), w.u)), FMul(FInt(edge2.y), w.v)),
     z |-> FAdd(FAdd(FInt(v1.z), FMul(FInt(edge1.z), w.u)), FMul(FInt(edge2.z), w.v))]
    ) : v1 \in {v1_}, edge1 \in {edge1_}, edge2 \in {edge2_}, w \in {w_}})

\* normalize(0.5, 0.5, 1.0)
light_dir == normalize(Vec3(scale \div 2, scale \div 2, scale))

TriNormal(v1_, v2_, v3_) ==
    The({(
    normalize(cross(sub(v2, v1), sub(v3, v1)))
    ) : v1 \in {v1_}, v2 \in {v2_}, v3 \in {v3_}})

\* normal.dot(light_dir).max(0.0) * 0.8 + 0.2
OpaqueIntensity(normal) ==
    MulM(Max2(TDiv(dot(normal, light_dir), Milli), 0), 800) + 200
    

\* normal.dot(light_dir).abs() * 0.8 + 0.2
RingIntensity(normal) ==
    MulM(Abs(TDiv(dot(normal, light_dir), Milli)), 800) + 200
    

CellAt(buf_, idx_) ==
    The({(
    IF idx \in DOMAIN buf.cells THEN buf.cells[idx] ELSE 0
    ) : buf \in {buf_}, idx \in {idx_}})
DepthAt(zbuf_, idx_) ==
    The({(
    IF idx \in DOMAIN zbuf.cells THEN zbuf.cells[idx] ELSE NEG_INFINITY
    ) : zbuf \in {zbuf_}, idx \in {idx_}})

\* (mutant) z >= z_buffer[idx]: the last of several equal depths wins
DepthTestGe(z, stored) == FGe(z, stored)
\* (mutant) no depth test: the last triangle drawn wins
DepthTestNone(z, stored) == TRUE

\* z > z_buffer[idx]
DepthTest(z, stored) == FGt(z, stored)

\* the pixel, its weights, the inside test and the interpolated position
Sample(v1_, v2_, v3_, px_, w_) ==
    The({(
    [x |-> px.x, y |-> px.y, idx |-> px.y * WIDTH + px.x, u |-> w.u, v |-> w.v,
     inside |-> Inside(w),
     position |-> IF Inside(w)
                  THEN Interpolate(v1, sub(v2, v1), sub(v3, v1), w)
                  ELSE [x |-> NaN, y |-> NaN, z |-> NaN]]
    ) : v1 \in {v1_}, v2 \in {v2_}, v3 \in {v3_}, px \in {px_}, w \in {w_}})
SampleAt(v1_, v2_, v3_, px_) ==
    The({(
    Sample(v1, v2, v3, px,
           Barycentric(Project(v1), Project(v2), Project(v3), px.x, px.y))
    ) : v1 \in {v1_}, v2 \in {v2_}, v3 \in {v3_}, px \in {px_}})

\* the depth test and the shading of a sample
OpaqueFragment(s_, pass_, shader_, normal_, time_) ==
    The({(
    [x |-> s.x, y |-> s.y, idx |-> s.idx, u |-> s.u, v |-> s.v,
     inside |-> s.inside, position |-> s.position, pass |-> pass,
     shaded |-> IF pass THEN 1 ELSE 0,
     write |-> pass,
     color |-> IF pass
               THEN to_u32(Shade(shader,
                                 Fragment(s.position, normal,
                                          OpaqueIntensity(normal), time)))
               ELSE 0]
    ) : s \in {s_}, pass \in {pass_}, shader \in {shader_}, normal \in {normal_}, time \in {time_}})
OpaqueSample(zbuf_, s_, shader_, normal_, time_) ==
    The({(
    OpaqueFragment(s, s.inside /\ DepthTest(s.position.z, DepthAt(zbuf, s.idx)),
                   shader, normal, time)
    ) : zbuf \in {zbuf_}, s \in {s_}, shader \in {shader_}, normal \in {normal_}, time \in {time_}})

\* what one iteration of the loops of render_triangle does at a pixel
OpaquePixel(zbuf_, v1_, v2_, v3_, shader_, time_, px_) ==
    The({(
    OpaqueSample(zbuf, SampleAt(v1, v2, v3, px), shader, TriNormal(v1, v2, v3),
                 time)
    ) : zbuf \in {zbuf_}, v1 \in {v1_}, v2 \in {v2_}, v3 \in {v3_}, shader \in {shader_}, time \in {time_}, px \in {px_}})

\* The cells of a colour buffer after the writes of `hits`; a cell holding 0
\* is stored as absent, so that equal buffers are equal values.
WriteCells(cells_, hits_) ==
    The({(
    LET written == {r.idx : r \in hits}
        rec(i) == CHOOSE r \in hits : r.idx = i
        val(i) == IF i \in written THEN rec(i).color ELSE cells[i]
        keep == {i \in DOMAIN cells \cup written : val(i) # 0}
    IN  [i \in keep |-> val(i)]
    ) : cells \in {cells_}, hits \in {hits_}})

\* (mutant) the colour written without its depth
WriteDepthsNone(cells, hits) == cells

\* the depth cells after the writes of `hits`
WriteDepths(cells_, hits_) ==
    The({(
    LET written == {r.idx : r \in hits}
        rec(i) == CHOOSE r \in hits : r.idx = i
    IN  [i \in DOMAIN cells \cup written |->
            IF i \in written THEN rec(i).position.z ELSE cells[i]]
    ) : cells \in {cells_}, hits \in {hits_}})

\* the buffers after the pixels of a call
OpaqueWrites(buf_, zbuf_, recs_) ==
    The({(
    [buffer |-> [buf EXCEPT !.cells = WriteCells(buf.cells, {r \in recs : r.pass})],
     z_buffer |-> [zbuf EXCEPT !.cells =
                      WriteDepths(zbuf.cells, {r \in recs : r.pass})],
     log |-> recs]
    ) : buf \in {buf_}, zbuf \in {zbuf_}, recs \in {recs_}})

\* render_triangle: the new buffers and the per-pixel record of the call
render_triangle(buf_, zbuf_, v1_, v2_, v3_, shader_, time_) ==
    The({(
    OpaqueWrites(buf, zbuf,
                 {OpaquePixel(zbuf, v1, v2, v3, shader, time, q) :
                    q \in BBoxPixels(Project(v1), Project(v2), Project(v3))})
    ) : buf \in {buf_}, zbuf \in {zbuf_}, v1 \in {v1_}, v2 \in {v2_}, v3 \in {v3_}, shader \in {shader_}, time \in {time_}})

\* (mutant) the two weights exchanged
BlendChannelSwapped(ring_, existing_, alpha_) ==
    The({(
    TDiv(Clamp(existing * alpha + ring * (Milli - alpha), 0, 255 * Milli), Milli)
    ) : ring \in {ring_}, existing \in {existing_}, alpha \in {alpha_}})

\* lines 789-805: ring over existing, per channel, for alpha in Milli
BlendChannel(ring_, existing_, alpha_) ==
    The({(
    TDiv(Clamp(ring * alpha + existing * (Milli - alpha), 0, 255 * Milli), Milli)
    ) : ring \in {ring_}, existing \in {existing_}, alpha \in {alpha_}})
Blend(ring_color_, existing_, alpha_) ==
    The({(
    LET e == Unpack(existing)
    IN  BlendChannel(ring_color.r, e.r, alpha) * 65536
        + BlendChannel(ring_color.g, e.g, alpha) * 256
        + BlendChannel(ring_color.b, e.b, alpha)
    ) : ring_color \in {ring_color_}, existing \in {existing_}, alpha \in {alpha_}})

\* alpha > 0.01
AlphaVisible(alpha) == alpha > 10

\* (mutant) the ring path with the depth test of the opaque path
RingWritesDepthTested(alpha, z, stored) ==
    AlphaVisible(alpha) /\ FGt(z, stored)
    

\* the condition under which render_ring_triangle writes a covered pixel:
\* alpha > 0.01, whatever the fragment's depth z and the stored depth are
RingWrites(alpha, z, stored) ==
    AlphaVisible(alpha)
    

\* the blending of a sample whose ring colour and alpha are `ring`
RingFragment(s_, ring_, write_, existing_) ==
    The({(
    [x |-> s.x, y |-> s.y, idx |-> s.idx, u |-> s.u, v |-> s.v,
     inside |-> s.inside, position |-> s.position, pass |-> s.inside,
     shaded |-> IF s.inside THEN 1 ELSE 0,
     write |-> write, alpha |-> ring.alpha, ring_color |-> ring.color,
     color |-> IF write THEN Blend(ring.color, existing, ring.alpha) ELSE 0]
    ) : s \in {s_}, ring \in {ring_}, write \in {write_}, existing \in {existing_}})
RingShaded(buf_, zbuf_, s_, ring_) ==
    The({(
    RingFragment(s, ring,
                 s.inside /\ RingWrites(ring.alpha, s.position.z,
                                        DepthAt(zbuf, s.idx)),
                 CellAt(buf, s.idx))
    ) : buf \in {buf_}, zbuf \in {zbuf_}, s \in {s_}, ring \in {ring_}})
RingSample(buf_, zbuf_, s_, normal_, time_) ==
    The({(
    RingShaded(buf, zbuf, s,
               IF s.inside
               THEN ring_shader(Fragment(s.position, normal,
                                         RingIntensity(normal), time))
               ELSE [color |-> Color(0, 0, 0), alpha |-> 0])
    ) : buf \in {buf_}, zbuf \in {zbuf_}, s \in {s_}, normal \in {normal_}, time \in {time_}})

\* what one iteration of the loops of render_ring_triangle does at a pixel
RingPixel(buf_, zbuf_, v1_, v2_, v3_, time_, px_) ==
    The({(
    RingSample(buf, zbuf, SampleAt(v1, v2, v3, px), TriNormal(v1, v2, v3), time)
    ) : buf \in {buf_}, zbuf \in {zbuf_}, v1 \in {v1_}, v2 \in {v2_}, v3 \in {v3_}, time \in {time_}, px \in {px_}})

\* the buffers after the pixels of a ring call
RingWritesOf(buf_, zbuf_, recs_) ==
    The({(
    [buffer |-> [buf EXCEPT !.cells = WriteCells(buf.cells, {r \in recs : r.write})],
     z_buffer |-> zbuf,
     log |-> recs]
    ) : buf \in {buf_}, zbuf \in {zbuf_}, recs \in {recs_}})

\* render_ring_triangle: the new buffers and the per-pixel record of the call
render_ring_triangle(buf_, zbuf_, v1_, v2_, v3_, time_) ==
    The({(
    RingWritesOf(buf, zbuf,
                 {RingPixel(buf, zbuf, v1, v2, v3, time, q) :
                    q \in BBoxPixels(Project(v1), Project(v2), Project(v3))})
    ) : buf \in {buf_}, zbuf \in {zbuf_}, v1 \in {v1_}, v2 \in {v2_}, v3 \in {v3_}, time \in {time_}})

\* vec![0u32; WIDTH * HEIGHT] and vec![f32::NEG_INFINITY; WIDTH * HEIGHT]
Empty == [i \in {} |-> 0]
NewBuffer == [len |-> WIDTH * HEIGHT, cells |-> Empty]
NewZBuffer == [len |-> WIDTH * HEIGHT, cells |-> Empty]

(***************************************************************************)
(* Rasterizer calls in any order: the triangles of a pool are submitted to *)
(* render_triangle and render_ring_triangle against freshly reset buffers, *)
(* each at most once, in every order.                                      *)
(***************************************************************************)
MaxCalls == 4

Tri(a, b, c) == [v1 |-> a, v2 |-> b, v3 |-> c]

\* opaque triangles, in units of 1/scale:
\*   1  flat at z = 0, around the image centre
\*   2  tilted, z = x: meets 1 along the column x = 0
\*   3  zero screen area: three points of the row y = 400, one of them far
\*      to the right of the image, so that dot00 and dot01 * dot01 exceed
\*      2^24 and are rounded
OpaquePool ==
    (1 :> Tri(Vec3(-1, -1, 0), Vec3(2, -1, 0), Vec3(-1, 2, 0)))
    @@ (2 :> Tri(Vec3(-1, -1, -1), Vec3(2, -1, 2), Vec3(-1, 2, -1)))
    @@ (3 :> Tri(Vec3(397, 0, 1), Vec3(5398, 0, 1), Vec3(400, 0, 1)))

\* ring triangles:
\*   1  behind the opaque triangles, sloped from inside the band of the ring
\*      shader to inside its inner radius, where alpha is 0
\*   2  in front of them, inside the band
\*   3  zero screen area: as opaque triangle 3, inside the band
RingPool ==
    (1 :> Tri(Vec3(-1, -1, -300), Vec3(2, -1, -200), Vec3(-1, 2, -300)))
    @@ (2 :> Tri(Vec3(-2, -2, 320), Vec3(1, -2, 320), Vec3(-2, 1, 322)))
    @@ (3 :> Tri(Vec3(397, 0, 0), Vec3(5398, 0, 0), Vec3(400, 0, 0)))

\* the scene time of the calls (main renders the sun at time 2.5)
CallTime == 2500

Call(kind, id) == [kind |-> kind, id |-> id]
Submitted == {hist[i] : i \in 1 .. Len(hist)}

InitCalls ==
    /\ pc = "calls"
    /\ entry = "none"
    /\ input = [shader |-> "sun", time |-> CallTime]
    /\ buffer = NewBuffer
    /\ z_buffer = NewZBuffer
    /\ step = 0
    /\ log = {}
    /\ hist = <<>>
    /\ out = "none"

CallRenderTriangle ==
    /\ pc = "calls"
    /\ Len(hist) < MaxCalls
    /\ \E id \in DOMAIN OpaquePool :
          /\ Call("opaque", id) \notin Submitted
          /\ \E r \in {render_triangle(buffer, z_buffer, OpaquePool[id].v1,
                                       OpaquePool[id].v2, OpaquePool[id].v3,
                                       input.shader, input.time)} :
                 /\ buffer' = r.buffer
                 /\ z_buffer' = r.z_buffer
                 /\ log' = r.log
                 /\ hist' = Append(hist, Call("opaque", id))
    /\ UNCHANGED <<pc, entry, input, step, out>>

CallRenderRingTriangle ==
    /\ pc = "calls"
    /\ Len(hist) < MaxCalls
    /\ \E id \in DOMAIN RingPool :
          /\ Call("ring", id) \notin Submitted
          /\ \E r \in {render_ring_triangle(buffer, z_buffer, RingPool[id].v1,
                                            RingPool[id].v2, RingPool[id].v3,
                                            input.time)} :
                 /\ buffer' = r.buffer
                 /\ z_buffer' = r.z_buffer
                 /\ log' = r.log
                 /\ hist' = Append(hist, Call("ring", id))
    /\ UNCHANGED <<pc, entry, input, step, out>>

NextCalls == CallRenderTriangle \/ CallRenderRingTriangle
SpecCalls == InitCalls /\ [][NextCalls]_vars

(***************************************************************************)
(* Properties of the rasterizer calls                                      *)
(***************************************************************************)
TriPixels(t_) ==
    The({(
    BBoxPixels(Project(t.v1), Project(t.v2), Project(t.v3))
    ) : t \in {t_}})
PoolPixels ==
    UNION ({TriPixels(OpaquePool[i]) : i \in DOMAIN OpaquePool}
           \cup {TriPixels(RingPool[i]) : i \in DOMAIN RingPool})
Idx(px_) == The({(px.y * WIDTH + px.x) : px \in {px_}})

\* twice the signed screen area of a triangle
Area2(t_) ==
    The({(
    LET p1 == Project(t.v1)
        p2 == Project(t.v2)
        p3 == Project(t.v3)
    IN  (p2.x - p1.x) * (p3.y - p1.y) - (p2.y - p1.y) * (p3.x - p1.x)
    ) : t \in {t_}})
Degenerate(t) == Area2(t) = 0

\* whether triangle t covers pixel px, and the depth of its fragment there
Covers(t_, px_) ==
    The({(
    /\ px \in TriPixels(t)
    /\ Inside(Barycentric(Project(t.v1), Project(t.v2), Project(t.v3), px.x, px.y))
    ) : t \in {t_}, px \in {px_}})
ZOf(t_, px_) ==
    The({(
    Interpolate(t.v1, sub(t.v2, t.v1), sub(t.v3, t.v1),
                Barycentric(Project(t.v1), Project(t.v2), Project(t.v3),
                            px.x, px.y)).z
    ) : t \in {t_}, px \in {px_}})
\* the colour the shader gives the fragment of t at px
ColorOf(t_, px_) ==
    The({(
    OpaquePixel(NewZBuffer, t.v1, t.v2, t.v3, input.shader, input.time, px).color
    ) : t \in {t_}, px \in {px_}})

TriOf(c_) ==
    The({(
    IF c.kind = "opaque" THEN OpaquePool[c.id] ELSE RingPool[c.id]
    ) : c \in {c_}})
OnlyOpaque == \A i \in 1 .. Len(hist) : hist[i].kind = "opaque"
\* the opaque calls so far whose triangle covers px
Covering(px) ==
    {i \in 1 .. Len(hist) : hist[i].kind = "opaque" /\ Covers(TriOf(hist[i]), px)}
    
\* those among them whose fragment has the largest depth
Nearest(px_) ==
    The({(
    {i \in Covering(px) :
        \A j \in Covering(px) :
            FGe(ZOf(TriOf(hist[i]), px), ZOf(TriOf(hist[j]), px))}
    ) : px \in {px_}})
MinOf(S_) == The({(CHOOSE i \in S : \A j \in S : i <= j) : S \in {S_}})

\* C1 as stated: after opaque calls in any order, every pixel holds the
\* shader output of the covering triangle with the largest depth, also when
\* several covering triangles have that depth.
C1_AnyNearestWins ==
    OnlyOpaque =>
        \A px \in PoolPixels :
            \A i \in Nearest(px) :
                CellAt(buffer, Idx(px)) = ColorOf(TriOf(hist[i]), px)

\* C1 (amended): after opaque calls in any order, a pixel no triangle covers
\* is black, and a covered pixel holds the shader output of the first
\* submitted of the covering triangles with the largest depth; so the colour
\* is the same for every order wherever one triangle alone is nearest.
C1_FirstNearestWins ==
    OnlyOpaque =>
        \A px \in PoolPixels :
            IF Covering(px) = {}
            THEN CellAt(buffer, Idx(px)) = 0
            ELSE CellAt(buffer, Idx(px))
                    = ColorOf(TriOf(hist[MinOf(Nearest(px))]), px)

\* two triangles tie at a pixel with different shader outputs, and a pixel
\* has a single nearest triangle submitted before a farther one
C1_Witness ==
    /\ OnlyOpaque
    /\ \E px \in PoolPixels :
          \E i, j \in Nearest(px) :
              ColorOf(TriOf(hist[i]), px) # ColorOf(TriOf(hist[j]), px)
    /\ \E px \in PoolPixels :
          /\ Cardinality(Nearest(px)) = 1
          /\ \E j \in Covering(px) : j > MinOf(Nearest(px))

DepthIsMax ==
    \A px \in PoolPixels :
        IF Covering(px) = {}
        THEN DepthAt(z_buffer, Idx(px)) = NEG_INFINITY
        ELSE DepthAt(z_buffer, Idx(px)) = ZOf(TriOf(hist[MinOf(Nearest(px))]), px)

DepthStep ==
    /\ \A px \in PoolPixels :
          FGe(DepthAt(z_buffer', Idx(px)), DepthAt(z_buffer, Idx(px)))
    /\ (Len(hist') > Len(hist) /\ hist'[Len(hist')].kind = "opaque") =>
          \A r \in log' :
              /\ r.pass <=> (r.inside
                             /\ FGt(r.position.z, DepthAt(z_buffer, r.idx)))
              /\ DepthAt(z_buffer', r.idx)
                    = IF r.pass THEN r.position.z ELSE DepthAt(z_buffer, r.idx)

\* C2: every depth cell holds the largest depth among the fragments that
\* covered its pixel (negative infinity if none did); a fragment passes the
\* depth test iff its depth is strictly greater than the stored one, and no
\* cell's depth ever decreases.
C2_DepthIsMax == []DepthIsMax /\ [][DepthStep]_vars

\* a fragment was rejected by a nearer stored depth, and another by a tie
C2_Witness ==
    /\ \E px \in PoolPixels :
          \E j \in Covering(px) : j > MinOf(Nearest(px)) /\ j \notin Nearest(px)
    /\ \E px \in PoolPixels :
          Cardinality(Nearest(px)) > 1

LastCall == hist[Len(hist)]
IsCall(kind) == Len(hist') > Len(hist) /\ hist'[Len(hist')].kind = kind

\* what ring_shader returns for the fragment of ring triangle t at px
RingOf(t_, px_) ==
    The({(
    LET normal == TriNormal(t.v1, t.v2, t.v3)
        position == Interpolate(t.v1, sub(t.v2, t.v1), sub(t.v3, t.v1),
                        Barycentric(Project(t.v1), Project(t.v2), Project(t.v3),
                                    px.x, px.y))
    IN  ring_shader(Fragment(position, normal, RingIntensity(normal), input.time))
    ) : t \in {t_}, px \in {px_}})

RingBlends(t_, px_) ==
    The({(
    Covers(t, px) /\ RingOf(t, px).alpha > 10
    ) : t \in {t_}, px \in {px_}})

RingStep ==
    IsCall("ring") =>
        LET t == TriOf(hist'[Len(hist')])
        IN  /\ z_buffer' = z_buffer
            /\ \A px \in PoolPixels :
                  CellAt(buffer', Idx(px)) =
                      IF RingBlends(t, px)
                      THEN Blend(RingOf(t, px).color, CellAt(buffer, Idx(px)),
                                 RingOf(t, px).alpha)
                      ELSE CellAt(buffer, Idx(px))

\* C3: a render_ring_triangle call leaves every depth cell unchanged and
\* blends every covered pixel whose alpha exceeds the threshold onto the
\* colour already there, whatever depth is stored at that pixel.
C3_RingIgnoresDepth == [][RingStep]_vars

\* a ring triangle was blended over a pixel at which a nearer opaque
\* fragment is stored
C3_Witness ==
    /\ Len(hist) > 0
    /\ LastCall.kind = "ring"
    /\ \E px \in PoolPixels :
          /\ RingBlends(TriOf(LastCall), px)
          /\ Covering(px) # {}
          /\ FGt(DepthAt(z_buffer, Idx(px)), ZOf(TriOf(LastCall), px))
          /\ CellAt(buffer, Idx(px))
                # ColorOf(TriOf(hist[MinOf(Nearest(px))]), px)

\* the barycentric weights of px in t by Cramer's rule on the screen
\* triangle, as numerators over Area2(t)
WeightU(t_, px_) ==
    The({(
    LET p1 == Project(t.v1)
        p3 == Project(t.v3)
    IN  (px.x - p1.x) * (p3.y - p1.y) - (px.y - p1.y) * (p3.x - p1.x)
    ) : t \in {t_}, px \in {px_}})
WeightV(t_, px_) ==
    The({(
    LET p1 == Project(t.v1)
        p2 == Project(t.v2)
    IN  (p2.x - p1.x) * (px.y - p1.y) - (p2.y - p1.y) * (px.x - p1.x)
    ) : t \in {t_}, px \in {px_}})
InTriangle(t_, px_) ==
    The({(
    LET s == Sign(Area2(t))
    IN  /\ s * WeightU(t, px) >= 0
        /\ s * WeightV(t, px) >= 0
        /\ s * (WeightU(t, px) + WeightV(t, px)) <= s * Area2(t)
    ) : t \in {t_}, px \in {px_}})
\* v1 + u * (v2 - v1) + v * (v3 - v1) on the 3D vertices, one coordinate
Combine(t_, px_, a_, b_, c_) ==
    The({(
    Fin(a * Area2(t) + WeightU(t, px) * (b - a) + WeightV(t, px) * (c - a),
        Area2(t))
    ) : t \in {t_}, px \in {px_}, a \in {a_}, b \in {b_}, c \in {c_}})

C7_DegenerateSkipped ==
    [][(Len(hist') > Len(hist) /\ Degenerate(TriOf(hist'[Len(hist')])))
         => (buffer' = buffer /\ z_buffer' = z_buffer)]_vars

\* render_triangle, called first on opaque triangle 3 (zero area), has
\* written colours and depths
C7_Witness ==
    /\ Len(hist) = 1
    /\ hist[1] = Call("opaque", 3)
    /\ Degenerate(OpaquePool[3])
    /\ buffer.cells # Empty
    /\ z_buffer.cells # Empty

(***************************************************************************)
(* Frame compositor: render_sphere, render_planet_with_rings and           *)
(* render_planet_with_moon, one step per rasterizer call.                  *)
(***************************************************************************)
MaxSegments == 2

\* vertices[idx], for the zero-based index of the program
At(vertices, idx) == vertices[idx + 1]

\* (mutant) a row stride of segments + 2
SphereIndicesWide(segments_, k_) ==
    The({(
    LET lat == (k \div 2) \div segments
        lon == (k \div 2) % segments
        idx == lat * (segments + 2) + lon
    IN  <<idx, idx + 1, idx + segments + 1, idx + segments + 2>>
    ) : segments \in {segments_}, k \in {k_}})
\* the zero-based indices of the vertices v1, v2, v3, v4 that iteration
\* k \div 2 of a sphere loop reads (lat-major over the grid cells), and that
\* iteration k \div 2 of the ring loop reads
SphereIndices(segments_, k_) ==
    The({(
    LET lat == (k \div 2) \div segments
        lon == (k \div 2) % segments
        idx == lat * (segments + 1) + lon
    IN  <<idx, idx + 1, idx + segments + 1, idx + segments + 2>>
    ) : segments \in {segments_}, k \in {k_}})
RingIndices(k_) ==
    The({(
    LET i == k \div 2
    IN  <<i * 2, i * 2 + 1, i * 2 + 2, i * 2 + 3>>
    ) : k \in {k_}})
\* indexing a slice panics unless the index is below its length
InBounds(vertices, reads) == \A j \in 1 .. Len(reads) : reads[j] < Len(vertices)

\* Input meshes.  A sphere mesh is a latitude-major grid of
\* (segments + 1) * (segments + 1) vertices with a grid step of g units;
\* the shape gives the depth of a vertex.
Height(shape_, x_, y_) ==
    The({(
    IF shape = "dome" THEN 2 - (x * x + y * y) \div 4
    ELSE IF shape = "tilt" THEN x
    ELSE 0
    ) : shape \in {shape_}, x \in {x_}, y \in {y_}})
GridMesh(segments_, g_, shape_) ==
    The({(
    [n \in 1 .. (segments + 1) * (segments + 1) |->
        LET lat == (n - 1) \div (segments + 1)
            lon == (n - 1) % (segments + 1)
            x == g * lon - (g * segments) \div 2
            y == (g * segments) \div 2 - g * lat
        IN  Vec3(x, y, Height(shape, x, y))]
    ) : segments \in {segments_}, g \in {g_}, shape \in {shape_}})
\* A ring strip is an inner and an outer vertex per angular step.
RingStrip(steps_, z_) ==
    The({(
    [n \in 1 .. 2 * steps |->
        LET i == (n - 1) \div 2
        IN  IF n % 2 = 1 THEN Vec3(2 * i - steps + 1, -1, z)
            ELSE Vec3(2 * i - steps + 1, 2, z + i)]
    ) : steps \in {steps_}, z \in {z_}})

Shapes == {"dome", "tilt"}
\* rotations in quarter turns; for a multiple of 10 the moon's rotation,
\* rotation * 0.3, is a whole number of quarter turns as well
Rotations == {0, 10}
OrbitAngles == {1, 2}
RingDepths == {-300}

\* the orbital displacement of the moon: (2.5 cos a, 0.3, 2.5 sin a)
moon_offset(moon_orbit_angle_) ==
    The({(
    Vec3(((5 * scale) \div 2) * QCos(moon_orbit_angle),
         (3 * scale) \div 10,
         ((5 * scale) \div 2) * QSin(moon_orbit_angle))
    ) : moon_orbit_angle \in {moon_orbit_angle_}})

\* the k-th triangle the two loops over lat and lon submit: the quad at
\* (lat, lon) is split into (v1, v2, v3) and (v2, v4, v3)
QuadTriangle(v1_, v2_, v3_, v4_, k_) ==
    The({(
    IF k % 2 = 0 THEN Tri(v1, v2, v3) ELSE Tri(v2, v4, v3)
    ) : v1 \in {v1_}, v2 \in {v2_}, v3 \in {v3_}, v4 \in {v4_}, k \in {k_}})
PlanetTriangle(vertices_, segments_, rotation_, k_) ==
    The({(
    LET idx == SphereIndices(segments, k)
    IN  QuadTriangle(rotate_y(At(vertices, idx[1]), rotation),
                     rotate_y(At(vertices, idx[2]), rotation),
                     rotate_y(At(vertices, idx[3]), rotation),
                     rotate_y(At(vertices, idx[4]), rotation), k)
    ) : vertices \in {vertices_}, segments \in {segments_}, rotation \in {rotation_}, k \in {k_}})
MoonTriangle(vertices_, segments_, rotation_, orbit_, k_) ==
    The({(
    LET idx == SphereIndices(segments, k)
        rot == (rotation * 3) \div 10
        off == moon_offset(orbit)
    IN  QuadTriangle(rotate_y(add(At(vertices, idx[1]), off), rot),
                     rotate_y(add(At(vertices, idx[2]), off), rot),
                     rotate_y(add(At(vertices, idx[3]), off), rot),
                     rotate_y(add(At(vertices, idx[4]), off), rot), k)
    ) : vertices \in {vertices_}, segments \in {segments_}, rotation \in {rotation_}, orbit \in {orbit_}, k \in {k_}})
RingTriangle(vertices_, rotation_, k_) ==
    The({(
    LET idx == RingIndices(k)
    IN  QuadTriangle(rotate_y(At(vertices, idx[1]), rotation),
                     rotate_y(At(vertices, idx[2]), rotation),
                     rotate_y(At(vertices, idx[3]), rotation),
                     rotate_y(At(vertices, idx[4]), rotation), k)
    ) : vertices \in {vertices_}, rotation \in {rotation_}, k \in {k_}})

\* the number of calls of each loop
PlanetCalls == 2 * input.segments * input.segments
MoonCalls == 2 * input.moon_segments * input.moon_segments
RingCalls == 2 * (Len(input.ring_vertices) \div 2 - 1)
\* `ring_vertices.len() / 2 - 1` is a subtraction of unsigned integers: below
\* zero it panics in a build with overflow checks and wraps in one without
RingUnderflows == Len(input.ring_vertices) \div 2 < 1
Builds == {"checked", "wrapping"}

\* (mutant) a start that keeps the depth buffer of the previous render
ResetKeepDepth(old) == [buffer |-> NewBuffer, z_buffer |-> old.z_buffer]
\* (mutant) a start that keeps the colours of the previous render
ResetKeepColour(old) == [buffer |-> old.buffer, z_buffer |-> NewZBuffer]
\* the two allocations that open every render entry point
ResetBuffers(old) == [buffer |-> NewBuffer, z_buffer |-> NewZBuffer]

\* (mutant) the secondary geometry drawn first
FirstPhaseSecondary(e_) ==
    The({(
    IF e = "rings" THEN "ring" ELSE IF e = "moon" THEN "moon" ELSE "planet"
    ) : e \in {e_}})
\* the loop an entry point runs first, and the loop that follows a loop
FirstPhase(e) == "planet"
NextPhase(e_, phase_) ==
    The({(
    IF phase = "planet" /\ e = "rings" THEN "ring"
    ELSE IF phase = "planet" /\ e = "moon" THEN "moon"
    ELSE "done"
    ) : e \in {e_}, phase \in {phase_}})

NoVertices == <<>>
BaseInputs ==
    {[segments |-> s, planet_vertices |-> GridMesh(s, 2, sh), shader |-> f,
      time |-> CallTime, rotation |-> r]
        : s \in 1 .. MaxSegments, sh \in Shapes, f \in Shaders, r \in Rotations}

Begin(e, in) ==
    /\ pc = "idle"
    /\ entry' = e
    /\ input' = in
    /\ buffer' = ResetBuffers([buffer |-> buffer, z_buffer |-> z_buffer]).buffer
    /\ z_buffer' = ResetBuffers([buffer |-> buffer, z_buffer |-> z_buffer]).z_buffer
    /\ pc' = FirstPhase(e)
    /\ step' = 0
    /\ log' = {}
    /\ hist' = <<>>
    /\ out' = "none"

Stale == buffer.cells # Empty \/ z_buffer.cells # Empty

\* a mesh as the caller passes it: whole, or a slice that misses its last
\* vertex
Slices(mesh) == {mesh, SubSeq(mesh, 1, Len(mesh) - 1)}
\* ring strips of 0, 1, 2, 4, ... vertices
RingStrips(z) ==
    {RingStrip(n, z) : n \in 0 .. MaxSegments + 1} \union {SubSeq(RingStrip(1, z), 1, 1)}

StartSphere ==
    \E b \in BaseInputs :
        \E mesh \in Slices(b.planet_vertices) :
            Begin("sphere", [b EXCEPT !.planet_vertices = mesh] @@
                            [ring_vertices |-> NoVertices, moon_vertices |-> NoVertices,
                             moon_segments |-> 0, moon_orbit_angle |-> 0,
                             stale |-> Stale])

StartRings ==
    \E b \in BaseInputs, z \in RingDepths :
        \E strip \in RingStrips(z) :
            Begin("rings", b @@
                           [ring_vertices |-> strip, moon_vertices |-> NoVertices,
                            moon_segments |-> 0, moon_orbit_angle |-> 0,
                            stale |-> Stale])

StartMoon ==
    \E b \in BaseInputs, ms \in 1 .. MaxSegments, a \in OrbitAngles :
        Begin("moon", b @@
                      [ring_vertices |-> NoVertices,
                       moon_vertices |-> GridMesh(ms, 1, "dome"),
                       moon_segments |-> ms, moon_orbit_angle |-> a,
                       stale |-> Stale])

Submit(r, kind, reads, vertices) ==
    /\ buffer' = r.buffer
    /\ z_buffer' = r.z_buffer
    /\ log' = r.log
    /\ hist' = Append(hist, Call(kind, step))
    /\ step' = step + 1
    /\ out' = [reads |-> reads, len |-> Len(vertices)]
    /\ UNCHANGED <<pc, entry, input>>

\* the thread panics: no buffer is returned
Panic(message, reads, vertices) ==
    /\ pc' = "panicked"
    /\ out' = [panic |-> message, reads |-> reads, len |-> Len(vertices)]
    /\ UNCHANGED <<entry, input, buffer, z_buffer, step, log, hist>>

LoopExit(phase, calls) ==
    /\ pc = phase
    /\ step = calls
    /\ pc' = NextPhase(entry, phase)
    /\ step' = 0
    /\ UNCHANGED <<entry, input, buffer, z_buffer, log, hist, out>>

PlanetStep ==
    /\ pc = "planet"
    /\ step < PlanetCalls
    /\ \E idx \in {SphereIndices(input.segments, step)} :
        IF InBounds(input.planet_vertices, idx)
        THEN \E t \in {PlanetTriangle(input.planet_vertices, input.segments,
                                      input.rotation, step)} :
             \E r \in {render_triangle(buffer, z_buffer, t.v1, t.v2, t.v3,
                                       input.shader, input.time)} :
                  Submit(r, "planet", idx, input.planet_vertices)
        ELSE Panic("index out of bounds", idx, input.planet_vertices)
PlanetExit == pc = "planet" /\ LoopExit("planet", PlanetCalls)

\* ring_segments underflows: the checked build panics at the subtraction, the
\* wrapping build enters the loop with ring_segments = usize::MAX and panics
\* at the first index that is not below the length
RingUnderflow ==
    /\ pc = "ring"
    /\ RingUnderflows
    /\ \E build \in Builds :
        IF build = "checked"
        THEN Panic("attempt to subtract with overflow", <<>>, input.ring_vertices)
        ELSE Panic("index out of bounds", RingIndices(0), input.ring_vertices)
RingTriangleStep ==
    /\ pc = "ring"
    /\ ~RingUnderflows
    /\ step < RingCalls
    /\ \E idx \in {RingIndices(step)} :
        IF InBounds(input.ring_vertices, idx)
        THEN \E t \in {RingTriangle(input.ring_vertices, input.rotation, step)} :
             \E r \in {render_ring_triangle(buffer, z_buffer, t.v1, t.v2, t.v3,
                                            input.time)} :
                  Submit(r, "ring", idx, input.ring_vertices)
        ELSE Panic("index out of bounds", idx, input.ring_vertices)
RingExit == pc = "ring" /\ ~RingUnderflows /\ LoopExit("ring", RingCalls)

MoonStep ==
    /\ pc = "moon"
    /\ step < MoonCalls
    /\ \E idx \in {SphereIndices(input.moon_segments, step)} :
        IF InBounds(input.moon_vertices, idx)
        THEN \E t \in {MoonTriangle(input.moon_vertices, input.moon_segments,
                                    input.rotation, input.moon_orbit_angle, step)} :
             \E r \in {render_triangle(buffer, z_buffer, t.v1, t.v2, t.v3,
                                       "moon", input.time)} :
                  Submit(r, "moon", idx, input.moon_vertices)
        ELSE Panic("index out of bounds", idx, input.moon_vertices)
MoonExit == pc = "moon" /\ LoopExit("moon", MoonCalls)

\* `buffer` is returned to the caller
Return ==
    /\ pc = "done"
    /\ pc' = "idle"
    /\ out' = "returned"
    /\ UNCHANGED <<entry, input, buffer, z_buffer, step, log, hist>>

Init ==
    /\ pc = "idle"
    /\ entry = "none"
    /\ input = [segments |-> 0, planet_vertices |-> NoVertices, shader |-> "sun",
                time |-> CallTime, rotation |-> 0, ring_vertices |-> NoVertices,
                moon_vertices |-> NoVertices, moon_segments |-> 0,
                moon_orbit_angle |-> 0, stale |-> FALSE]
    /\ buffer = NewBuffer
    /\ z_buffer = NewZBuffer
    /\ step = 0
    /\ log = {}
    /\ hist = <<>>
    /\ out = "none"

Next ==
    \/ StartSphere
    \/ StartRings
    \/ StartMoon
    \/ PlanetStep
    \/ PlanetExit
    \/ RingUnderflow
    \/ RingTriangleStep
    \/ RingExit
    \/ MoonStep
    \/ MoonExit
    \/ Return

Spec == Init /\ [][Next]_vars

(***************************************************************************)
(* Properties of the compositor                                            *)
(***************************************************************************)
PlanetDone == {hist[i].id : i \in {j \in 1 .. Len(hist) : hist[j].kind = "planet"}}
Secondary == {i \in 1 .. Len(hist) : hist[i].kind # "planet"}

\* C4: in a composite scene every planet triangle is submitted before any
\* ring triangle (render_planet_with_rings) or moon triangle
\* (render_planet_with_moon).
C4_PrimaryFirst ==
    /\ \A i, j \in 1 .. Len(hist) :
          (i < j /\ hist[j].kind = "planet") => hist[i].kind = "planet"
    /\ Secondary # {} => PlanetDone = 0 .. PlanetCalls - 1
    /\ \A i \in Secondary :
          hist[i].kind = IF entry = "rings" THEN "ring" ELSE "moon"
    /\ entry = "sphere" => Secondary = {}

\* a render with rings has submitted all its planet and ring triangles, and
\* the ring pass has changed the picture
C4_Witness ==
    /\ entry = "rings"
    /\ pc = "done"
    /\ PlanetCalls > 2
    /\ Len(hist) = PlanetCalls + RingCalls
    /\ Cardinality(Secondary) = RingCalls
    /\ RingCalls > 2
    /\ \E r \in log : r.write

\* C5: the two buffers have WIDTH * HEIGHT cells each at all times, and
\* when an entry point is about to submit its first triangle both are
\* freshly reset: every colour black and every depth negative infinity.
C5_BuffersPairedAndReset ==
    /\ buffer.len = WIDTH * HEIGHT
    /\ z_buffer.len = buffer.len
    /\ DOMAIN buffer.cells \subseteq 0 .. buffer.len - 1
    /\ DOMAIN z_buffer.cells \subseteq 0 .. z_buffer.len - 1
    /\ (pc \in {"planet", "ring", "moon"} /\ hist = <<>>) =>
          /\ \A i \in DOMAIN buffer.cells \cup DOMAIN z_buffer.cells :
                CellAt(buffer, i) = 0 /\ DepthAt(z_buffer, i) = NEG_INFINITY
          /\ buffer.cells = Empty
          /\ z_buffer.cells = Empty

\* an entry point starts after a render that left colours and depths behind
C5_Witness ==
    /\ pc = "planet"
    /\ hist = <<>>
    /\ input.stale
    /\ buffer = NewBuffer
    /\ z_buffer = NewZBuffer

(***************************************************************************)
(* Color::mix applied to sampled colours and interpolation parameters      *)
(***************************************************************************)
Bytes == 0 .. 255
ByteSamples == {0, 128, 255}
TSamples == {-1000, -1, 0, 1, 333, 500, 999, 1000, 1001, 2500}
ColorA(v_) == The({(Color(v, 255 - v, (7 * v) % 256)) : v \in {v_}})
ColorB(w_) == The({(Color(w, (w + 85) % 256, 255 - w)) : w \in {w_}})

InitMix ==
    /\ pc = "mix"
    /\ entry = "none"
    /\ \E v \in Bytes, w \in ByteSamples, t \in TSamples :
          \/ input = [a |-> ColorA(v), b |-> ColorB(w), t |-> t]
          \/ input = [a |-> ColorB(w), b |-> ColorA(v), t |-> t]
    /\ buffer = NewBuffer
    /\ z_buffer = NewZBuffer
    /\ step = 0
    /\ log = {}
    /\ hist = <<>>
    /\ out = "none"

ApplyMix ==
    /\ pc = "mix"
    /\ pc' = "mixed"
    /\ out' = mix(input.a, input.b, input.t)
    /\ UNCHANGED <<entry, input, buffer, z_buffer, step, log, hist>>

SpecMix == InitMix /\ [][ApplyMix]_vars

\* C10: mix(a, b, 0) = a and mix(a, b, 1) = b, and a t outside [0, 1]
\* behaves as the nearer end: t < 0 gives a, t > 1 gives b.
C10_MixEnds ==
    pc = "mixed" =>
        /\ input.t <= 0 => out = input.a
        /\ input.t >= Milli => out = input.b

\* t beyond 1 applied to two colours that differ in every channel
C10_Witness ==
    /\ pc = "mixed"
    /\ input.t > Milli
    /\ input.a.r # input.b.r /\ input.a.g # input.b.g /\ input.a.b # input.b.b
    /\ out = input.b

(***************************************************************************)
(* The alpha compositing of render_ring_triangle applied to sampled        *)
(* colours and alphas                                                      *)
(***************************************************************************)
AlphaSamples == {0, 5, 10, 11, 300, 500, 950, 1000}
ExistingSamples == {0, 1, 17, 64, 127, 128, 200, 254, 255}

InitBlend ==
    /\ pc = "blend"
    /\ entry = "none"
    /\ input \in {[ring |-> ColorA(v), existing |-> to_u32(ColorB(w)), alpha |-> a]
                    : v \in Bytes, w \in ExistingSamples, a \in AlphaSamples}
    /\ buffer = NewBuffer
    /\ z_buffer = NewZBuffer
    /\ step = 0
    /\ log = {}
    /\ hist = <<>>
    /\ out = "none"

\* lines 789-806 on one cell: the cell's content afterwards
ApplyBlend ==
    /\ pc = "blend"
    /\ pc' = "blended"
    /\ out' = IF AlphaVisible(input.alpha)
              THEN Blend(input.ring, input.existing, input.alpha)
              ELSE input.existing
    /\ UNCHANGED <<entry, input, buffer, z_buffer, step, log, hist>>

SpecBlend == InitBlend /\ [][ApplyBlend]_vars

\* channel c of the result is ring * alpha + existing * (1 - alpha), cut to
\* a whole number
BlendedAs(o_, ring_, existing_, alpha_) ==
    The({(
    /\ o * Milli <= ring * alpha + existing * (Milli - alpha)
    /\ ring * alpha + existing * (Milli - alpha) < (o + 1) * Milli
    ) : o \in {o_}, ring \in {ring_}, existing \in {existing_}, alpha \in {alpha_}})

RingCoords == {0, 150, 259, 260, 261, 300, 399, 400, 401, 450}
GapSamples == {-500, 0, 700, 701, 999}
ParticleSamples == {-999, -1, 0, 1, 400, 960, 999}
IntensitySamples == {200, 1000}

InitRingShader ==
    /\ pc = "ring_shader"
    /\ entry = "none"
    /\ input \in {[position |-> [x |-> FInt(sx * x), y |-> FInt(0), z |-> FInt(sz * z)],
                   intensity |-> i]
                    : x \in RingCoords, z \in {0, 150, 260, 300, 400},
                      sx \in {1}, sz \in {-1, 1}, i \in IntensitySamples}
    /\ buffer = NewBuffer
    /\ z_buffer = NewZBuffer
    /\ step = 0
    /\ log = {}
    /\ hist = <<>>
    /\ out = "none"

\* ring_shader on the fragment
ApplyRingShader ==
    /\ pc = "ring_shader"
    /\ pc' = "shaded"
    /\ out' = [res |-> ring_shader(Fragment(input.position, Vec3(0, Milli, 0),
                                            input.intensity, CallTime)),
               particles |-> noise_3d(Vec3(PosMilli(input.position).x * 25, 0,
                                           PosMilli(input.position).z * 25))]
    /\ UNCHANGED <<entry, input, buffer, z_buffer, step, log, hist>>

\* ring_shader for any value of the two noise samples
ApplyRingShaderWith ==
    /\ pc = "ring_shader"
    /\ pc' = "shaded"
    /\ \E g \in GapSamples, p \in ParticleSamples :
          out' = [res |-> RingShaderWith(PosMilli(input.position),
                                         input.intensity, g, p),
                  particles |-> p]
    /\ UNCHANGED <<entry, input, buffer, z_buffer, step, log, hist>>

NextRingShader == ApplyRingShader \/ ApplyRingShaderWith
SpecRingShader == InitRingShader /\ [][NextRingShader]_vars

\* the square of the fragment's distance from the vertical axis, in Milli
Radius2 ==
    PosMilli(input.position).x * PosMilli(input.position).x
    + PosMilli(input.position).z * PosMilli(input.position).z

\* C9: alpha is 0 for a fragment nearer to the vertical axis than 1.3 or
\* farther than 2.0, and within [0.3, 0.95] for a fragment in the band,
\* whatever the noise values.
C9_RingAlpha ==
    pc = "shaded" =>
        IF Radius2 < 1300 * 1300 \/ Radius2 > 2000 * 2000
        THEN out.res.alpha = 0
        ELSE out.res.alpha >= 300 /\ out.res.alpha <= 950

\* a fragment on the inner edge with a negative particle sample: the clamp
\* lifts alpha to 0.3
C9_Witness ==
    /\ pc = "shaded"
    /\ Radius2 = 1300 * 1300
    /\ out.particles < 0
    /\ out.res.alpha = 300

(***************************************************************************)
(* fbm and turbulence applied to sampled positions and octave counts       *)
(***************************************************************************)
MaxOctaves == 4

\* coordinates in Milli, of both signs
NoiseCoords == {-1000, -500, 0, 250, 1000}

InitNoise ==
    /\ pc = "noise"
    /\ entry = "none"
    /\ input \in {[p |-> Vec3(x, y, z), octaves |-> n]
                    : x \in NoiseCoords, y \in NoiseCoords, z \in NoiseCoords,
                      n \in 1 .. MaxOctaves}
    /\ buffer = NewBuffer
    /\ z_buffer = NewZBuffer
    /\ step = 0
    /\ log = {}
    /\ hist = <<>>
    /\ out = "none"

\* noise_3d, fbm and turbulence on the position
ApplyNoise ==
    /\ pc = "noise"
    /\ pc' = "noised"
    /\ out' = [noise |-> noise_3d(input.p),
               fbm |-> fbm(input.p, input.octaves),
               turbulence |-> turbulence(input.p, input.octaves)]
    /\ UNCHANGED <<entry, input, buffer, z_buffer, step, log, hist>>

SpecNoise == InitNoise /\ [][ApplyNoise]_vars

\* C11: for any position and any octave count >= 1, fbm returns a value in
\* [0, 1] and turbulence a non-negative value.
C11_NoiseRanges ==
    pc = "noised" =>
        /\ out.fbm >= 0 /\ out.fbm <= Milli
        /\ out.turbulence >= 0

\* the half of C11 about turbulence alone
TurbulenceNonNegative == pc = "noised" => out.turbulence >= 0
\* the range fbm has with the noise_3d of the code
FbmMagnitude == pc = "noised" => (out.fbm > -Milli /\ out.fbm < Milli)

\* fbm with one octave at (-1, 0, 0) returned the negative noise_3d sample
C11_Witness ==
    /\ pc = "noised"
    /\ input = [p |-> Vec3(-1000, 0, 0), octaves |-> 1]
    /\ out.noise < 0
    /\ out.fbm = out.noise

(***************************************************************************)
(* The normal and the light intensity of a triangle, from its two edges    *)
(***************************************************************************)
\* edge coordinates in units of 1/scale
EdgeCoords == {-1, 0, 2}
EdgeVectors == {Vec3(x, y, z) : x \in EdgeCoords, y \in EdgeCoords, z \in EdgeCoords}

InitNormal ==
    /\ pc = "normal"
    /\ entry = "none"
    /\ input \in {[edge1 |-> a, edge2 |-> b] : a \in EdgeVectors, b \in EdgeVectors}
    /\ buffer = NewBuffer
    /\ z_buffer = NewZBuffer
    /\ step = 0
    /\ log = {}
    /\ hist = <<>>
    /\ out = "none"

\* edge1.cross(&edge2).normalize() and the intensity of the opaque path
ApplyNormal ==
    /\ pc = "normal"
    /\ pc' = "normalized"
    /\ \E n \in {normalize(cross(input.edge1, input.edge2))} :
          out' = [unit |-> normalize(input.edge1),
                  normal |-> n,
                  intensity |-> OpaqueIntensity(n)]
    /\ UNCHANGED <<entry, input, buffer, z_buffer, step, log, hist>>

SpecNormal == InitNormal /\ [][ApplyNormal]_vars

\* C12: normalize of the zero vector is the zero vector, and a triangle whose
\* edge cross product is zero has the zero normal and the opaque intensity
\* 0.2; a non-zero vector is not normalized to the zero vector.
C12_ZeroNormal ==
    pc = "normalized" =>
        /\ (out.unit = Vec3(0, 0, 0)) <=> (input.edge1 = Vec3(0, 0, 0))
        /\ cross(input.edge1, input.edge2) = Vec3(0, 0, 0) =>
              /\ out.normal = Vec3(0, 0, 0)
              /\ out.intensity = 200

\* two parallel non-zero edges: the cross product is zero, the intensity is
\* the ambient floor
C12_Witness ==
    /\ pc = "normalized"
    /\ input.edge1 = Vec3(-1, 0, 2)
    /\ input.edge2 = Vec3(-1, 0, 2)
    /\ out.unit # Vec3(0, 0, 0)
    /\ out.normal = Vec3(0, 0, 0)
    /\ out.intensity = 200

(***************************************************************************)
(* The sun render of main: render_sphere on generate_sphere(1.0, 50) with  *)
(* the sun shader, time 2.5 and rotation 0.8.  The frame is observed at    *)
(* the image centre and the four corners: a call changes a cell from the   *)
(* triangle and that cell alone, so the cells of the other pixels are not  *)
(* kept.  Vertices are rounded to whole units of 1/scale.                  *)
(***************************************************************************)
SunSegments == 50
SunRotation == 800

\* radius * sin_theta * cos_phi, radius * cos_theta, radius * sin_theta * sin_phi
SphereVertex(radius_, st_, ct_, sp_, cp_) ==
    The({(
    Vec3(TDiv(radius * st * cp, Milli * Milli), TDiv(radius * ct, Milli),
         TDiv(radius * st * sp, Milli * Milli))
    ) : radius \in {radius_}, st \in {st_}, ct \in {ct_}, sp \in {sp_}, cp \in {cp_}})
\* generate_sphere: radius in units of 1/scale
generate_sphere(radius_, segments_) ==
    The({(
    [n \in 1 .. (segments + 1) * (segments + 1) |->
        LET lat == (n - 1) \div (segments + 1)
            lon == (n - 1) % (segments + 1)
        IN  SphereVertex(radius,
                         SinMilli((PI * lat) \div segments),
                         CosMilli((PI * lat) \div segments),
                         SinMilli((2 * PI * lon) \div segments),
                         CosMilli((2 * PI * lon) \div segments))]
    ) : radius \in {radius_}, segments \in {segments_}})

\* Vec3::rotate_y for an angle in Milli
RotateWith(a_, cos_a_, sin_a_) ==
    The({(
    Vec3(TDiv(a.x * cos_a + a.z * sin_a, Milli), a.y,
         TDiv(-a.x * sin_a + a.z * cos_a, Milli))
    ) : a \in {a_}, cos_a \in {cos_a_}, sin_a \in {sin_a_}})
rotate_y_by(a, angle) == RotateWith(a, CosMilli(angle), SinMilli(angle))

\* the k-th triangle of render_sphere's loops
SphereTriangle(vertices_, segments_, rotation_, k_) ==
    The({(
    LET lat == (k \div 2) \div segments
        lon == (k \div 2) % segments
        idx == lat * (segments + 1) + lon
    IN  QuadTriangle(rotate_y_by(At(vertices, idx), rotation),
                     rotate_y_by(At(vertices, idx + 1), rotation),
                     rotate_y_by(At(vertices, idx + segments + 1), rotation),
                     rotate_y_by(At(vertices, idx + segments + 2), rotation), k)
    ) : vertices \in {vertices_}, segments \in {segments_}, rotation \in {rotation_}, k \in {k_}})

Centre == [x |-> center_x, y |-> center_y]
Corners == {[x |-> x, y |-> y] : x \in {0, WIDTH - 1}, y \in {0, HEIGHT - 1}}
Observed == {Centre} \cup Corners

InBBox(q_, bb_) ==
    The({(
    /\ bb.min_x <= q.x /\ q.x <= bb.max_x
    /\ bb.min_y <= q.y /\ q.y <= bb.max_y
    ) : q \in {q_}, bb \in {bb_}})

\* render_triangle on the cells of the pixels `obs`
RenderObserved(buf_, zbuf_, t_, bb_, shader_, time_, obs_) ==
    The({(
    OpaqueWrites(buf, zbuf,
                 {OpaquePixel(zbuf, t.v1, t.v2, t.v3, shader, time, q) :
                    q \in {o \in obs : InBBox(o, bb)}})
    ) : buf \in {buf_}, zbuf \in {zbuf_}, t \in {t_}, bb \in {bb_}, shader \in {shader_}, time \in {time_}, obs \in {obs_}})

InitSun ==
    /\ pc = "sun"
    /\ entry = "sphere"
    /\ input = [segments |-> SunSegments,
                planet_vertices |-> generate_sphere(scale, SunSegments),
                shader |-> "sun", time |-> CallTime, rotation |-> SunRotation]
    /\ buffer = NewBuffer
    /\ z_buffer = NewZBuffer
    /\ step = 0
    /\ log = {}
    /\ hist = <<>>
    /\ out = "none"

\* one render_triangle call of the loops; out holds its bounding box
SunTriangleStep ==
    /\ pc = "sun"
    /\ step < PlanetCalls
    /\ \E t \in {SphereTriangle(input.planet_vertices, input.segments,
                                input.rotation, step)} :
       \E bb \in {BBox(Project(t.v1), Project(t.v2), Project(t.v3))} :
       \E r \in {RenderObserved(buffer, z_buffer, t, bb, input.shader,
                                input.time, Observed)} :
            /\ buffer' = r.buffer
            /\ z_buffer' = r.z_buffer
            /\ log' = r.log
            /\ out' = bb
    /\ step' = step + 1
    /\ UNCHANGED <<pc, entry, input, hist>>

SunExit ==
    /\ pc = "sun"
    /\ step = PlanetCalls
    /\ pc' = "sun_done"
    /\ UNCHANGED <<entry, input, buffer, z_buffer, step, log, hist, out>>

NextSun == SunTriangleStep \/ SunExit
SpecSun == InitSun /\ [][NextSun]_vars

BorderOffsets == {-(center_x + 6), -center_x, 0, center_x - 1, center_x + 6}
BorderShapes == {"small", "mirrored"}

BorderTriangle(x_, y_, shape_) ==
    The({(
    IF shape = "small"
    THEN Tri(Vec3(x - 2, y - 2, 0), Vec3(x + 3, y - 2, 0), Vec3(x - 2, y + 3, 0))
    ELSE Tri(Vec3(x + 2, y + 2, 1), Vec3(x + 2, y - 3, 1), Vec3(x - 3, y + 2, 1))
    ) : x \in {x_}, y \in {y_}, shape \in {shape_}})

InitBorder ==
    /\ pc = "border"
    /\ entry = "none"
    /\ input \in {[triangle |-> BorderTriangle(x, y, sh), shader |-> "sun",
                   time |-> CallTime]
                    : x \in BorderOffsets, y \in BorderOffsets, sh \in BorderShapes}
    /\ buffer = NewBuffer
    /\ z_buffer = NewZBuffer
    /\ step = 0
    /\ log = {}
    /\ hist = <<>>
    /\ out = "none"

BorderRenderTriangle ==
    /\ pc = "border"
    /\ pc' = "rendered"
    /\ \E r \in {render_triangle(buffer, z_buffer, input.triangle.v1,
                                 input.triangle.v2, input.triangle.v3,
                                 input.shader, input.time)} :
          /\ buffer' = r.buffer
          /\ z_buffer' = r.z_buffer
          /\ log' = r.log
    /\ out' = "opaque"
    /\ UNCHANGED <<entry, input, step, hist>>

BorderRenderRingTriangle ==
    /\ pc = "border"
    /\ pc' = "rendered"
    /\ \E r \in {render_ring_triangle(buffer, z_buffer, input.triangle.v1,
                                      input.triangle.v2, input.triangle.v3,
                                      input.time)} :
          /\ buffer' = r.buffer
          /\ z_buffer' = r.z_buffer
          /\ log' = r.log
    /\ out' = "ring"
    /\ UNCHANGED <<entry, input, step, hist>>

NextBorder == BorderRenderTriangle \/ BorderRenderRingTriangle
SpecBorder == InitBorder /\ [][NextBorder]_vars

\* the projected vertices of the triangle of the call
BorderPoints ==
    {Project(input.triangle.v1), Project(input.triangle.v2),
     Project(input.triangle.v3)}

\* C14: for a triangle inside the image, across any border or wholly beyond
\* it, every pixel the two loops visit has 0 <= x <= WIDTH - 1 and
\* 0 <= y <= HEIGHT - 1, so every index y * WIDTH + x read or written lies
\* in [0, WIDTH * HEIGHT); a triangle beyond the image writes nothing.
C14_IndexInBounds ==
    pc = "rendered" =>
        /\ \A r \in log :
              /\ 0 <= r.x /\ r.x <= WIDTH - 1
              /\ 0 <= r.y /\ r.y <= HEIGHT - 1
              /\ r.idx = r.y * WIDTH + r.x
              /\ 0 <= r.idx /\ r.idx < WIDTH * HEIGHT
        /\ \A i \in DOMAIN buffer.cells \cup DOMAIN z_buffer.cells :
              0 <= i /\ i < buffer.len
        /\ (\/ \A p \in BorderPoints : p.x < 0
            \/ \A p \in BorderPoints : p.x > WIDTH - 1
            \/ \A p \in BorderPoints : p.y < 0
            \/ \A p \in BorderPoints : p.y > HEIGHT - 1)
              => (buffer.cells = Empty /\ z_buffer.cells = Empty)

\* a triangle across the top left corner: the loops ran on the clamped box
\* and the corner pixel was written
C14_Witness ==
    /\ pc = "rendered"
    /\ out = "opaque"
    /\ \E p \in BorderPoints : p.x < 0 /\ p.y < 0
    /\ \E r \in log : r.x = 0 /\ r.y = 0 /\ r.write
    /\ 0 \in DOMAIN z_buffer.cells

(***************************************************************************)
(* The two ring triangles of a quad, (v1, v2, v3) and (v2, v4, v3), as the *)
(* ring loop of render_planet_with_rings submits them                      *)
(***************************************************************************)
\* quads in units of 1/scale: the shared edge v2 - v3 lies on a row of
\* pixels, at a depth inside the band of the ring shader
QuadWidths == 1 .. 5
QuadHeights == {3, 4, 5}
QuadDepths == {-300, 300, 330}
Quad(a_, b_, z_) ==
    The({(
    [v1 |-> Vec3(-2, b, z), v2 |-> Vec3(-2, -4, z), v3 |-> Vec3(a, -4, z),
     v4 |-> Vec3(a + 1, -6, z)]
    ) : a \in {a_}, b \in {b_}, z \in {z_}})

InitQuad ==
    /\ pc = "quad"
    /\ entry = "rings"
    /\ input \in {[quad |-> Quad(a, b, z), time |-> CallTime]
                    : a \in QuadWidths, b \in QuadHeights, z \in QuadDepths}
    /\ buffer = NewBuffer
    /\ z_buffer = NewZBuffer
    /\ step = 0
    /\ log = {}
    /\ hist = <<>>
    /\ out = "none"

\* render_ring_triangle(v1, v2, v3); out keeps the record of this call
QuadFirstTriangle ==
    /\ pc = "quad"
    /\ step = 0
    /\ \E r \in {render_ring_triangle(buffer, z_buffer, input.quad.v1,
                                      input.quad.v2, input.quad.v3, input.time)} :
          /\ buffer' = r.buffer
          /\ z_buffer' = r.z_buffer
          /\ log' = r.log
          /\ out' = r.log
    /\ step' = 1
    /\ UNCHANGED <<pc, entry, input, hist>>

\* render_ring_triangle(v2, v4, v3)
QuadSecondTriangle ==
    /\ pc = "quad"
    /\ step = 1
    /\ \E r \in {render_ring_triangle(buffer, z_buffer, input.quad.v2,
                                      input.quad.v4, input.quad.v3, input.time)} :
          /\ buffer' = r.buffer
          /\ z_buffer' = r.z_buffer
          /\ log' = r.log
    /\ step' = 2
    /\ pc' = "quad_done"
    /\ UNCHANGED <<entry, input, hist, out>>

NextQuad == QuadFirstTriangle \/ QuadSecondTriangle
SpecQuad == InitQuad /\ [][NextQuad]_vars

\* the pixels lying exactly on the shared edge v2 - v3
SharedEdgePixels ==
    LET p2 == Project(input.quad.v2)
        p3 == Project(input.quad.v3)
    IN  {p \in BBoxPixels(p2, p3, p3) :
            (p.x - p2.x) * (p3.y - p2.y) = (p.y - p2.y) * (p3.x - p2.x)}
RecAt(L, p) == CHOOSE r \in L : r.x = p.x /\ r.y = p.y
Once(second) == Blend(second.ring_color, 0, second.alpha)
Twice(first, second) ==
    Blend(second.ring_color, Blend(first.ring_color, 0, first.alpha), second.alpha)

\* C15 as stated: every pixel lying exactly on the shared edge is accepted by
\* the inside test of both triangles and is alpha-blended twice.
C15_BothAccept ==
    pc = "quad_done" =>
        \A p \in SharedEdgePixels :
            /\ RecAt(out, p).inside
            /\ RecAt(log, p).inside
            /\ CellAt(buffer, Idx(p)) = Twice(RecAt(out, p), RecAt(log, p))

\* C15 (amended): a pixel lying exactly on the shared edge is accepted by
\* (v2, v4, v3), where its weight u is exactly 0, and is blended by that
\* call; it is blended twice iff (v1, v2, v3), where it lies on u + v = 1,
\* accepts it as well, and once otherwise.
C15_SharedEdge ==
    pc = "quad_done" =>
        \A p \in SharedEdgePixels :
            /\ RecAt(log, p).inside
            /\ RecAt(log, p).u = FInt(0)
            /\ RecAt(log, p).write
            /\ FAdd(RecAt(out, p).u, RecAt(out, p).v) = FInt(1)
            /\ CellAt(buffer, Idx(p)) =
                  IF RecAt(out, p).inside
                  THEN Twice(RecAt(out, p), RecAt(log, p))
                  ELSE Once(RecAt(log, p))

\* on one shared edge a pixel was blended twice and another, which the f32
\* sum u + v > 1.0 kept out of (v1, v2, v3), once
C15_Witness ==
    /\ pc = "quad_done"
    /\ input.quad = Quad(5, 5, -300)
    /\ \E p \in SharedEdgePixels :
          /\ p.x = center_x - 1
          /\ ~RecAt(out, p).inside
          /\ RecAt(log, p).inside
          /\ CellAt(buffer, Idx(p)) = Once(RecAt(log, p))
    /\ \E p \in SharedEdgePixels :
          /\ RecAt(out, p).inside
          /\ RecAt(log, p).inside
          /\ CellAt(buffer, Idx(p)) = Twice(RecAt(out, p), RecAt(log, p))
          /\ CellAt(buffer, Idx(p)) # Once(RecAt(log, p))

(***************************************************************************)
(* The writes of one render_triangle call (rasterizer calls in any order)  *)
(***************************************************************************)
Passed(L) == {r \in L : r.pass}
Touched(a, b) == DOMAIN a.cells \cup DOMAIN b.cells

OpaqueStep ==
    IsCall("opaque") =>
        /\ \A r \in log' :
              /\ r.pass <=> (r.inside /\ FGt(r.position.z, DepthAt(z_buffer, r.idx)))
              /\ r.shaded = IF r.pass THEN 1 ELSE 0
        /\ \A r \in Passed(log') :
              /\ r.color = ColorOf(TriOf(hist'[Len(hist')]), r)
              /\ CellAt(buffer', r.idx) = r.color
              /\ DepthAt(z_buffer', r.idx) = r.position.z
              /\ DepthAt(z_buffer', r.idx) # DepthAt(z_buffer, r.idx)
        /\ \A i \in (Touched(buffer, buffer') \cup Touched(z_buffer, z_buffer'))
                       \ {r.idx : r \in Passed(log')} :
              /\ CellAt(buffer', i) = CellAt(buffer, i)
              /\ DepthAt(z_buffer', i) = DepthAt(z_buffer, i)

\* C16: a render_triangle call shades exactly the pixels that pass the inside
\* test and the depth test, once each; at each of them it stores the shader's
\* colour and the fragment's depth together, and it leaves every other cell
\* of both buffers unchanged.
C16_WritesTogether == [][OpaqueStep]_vars

\* the last render_triangle call wrote a pixel, left a covered pixel to a
\* nearer stored fragment, rejected a pixel outside the triangle, and left a
\* cell written earlier outside its bounding box as it was
C16_Witness ==
    /\ Len(hist) > 1
    /\ LastCall.kind = "opaque"
    /\ \E r \in log : r.pass /\ CellAt(buffer, r.idx) = r.color /\ r.color # 0
    /\ \E r \in log : r.inside /\ ~r.pass /\ r.shaded = 0
    /\ \E r \in log : ~r.inside
    /\ \E i \in DOMAIN buffer.cells : i \notin {r.idx : r \in log}

(***************************************************************************)
(* Vertex indices and triangle counts of the render loops                  *)
(***************************************************************************)
\* the meshes a render is given have the sizes its loops assume
WholeMeshes ==
    /\ Len(input.planet_vertices) = (input.segments + 1) * (input.segments + 1)
    /\ entry = "moon" =>
          Len(input.moon_vertices) = (input.moon_segments + 1) * (input.moon_segments + 1)
    /\ entry = "rings" =>
          (Len(input.ring_vertices) % 2 = 0 /\ Len(input.ring_vertices) >= 2)
CountOf(kind) == Cardinality({i \in 1 .. Len(hist) : hist[i].kind = kind})
\* the loop that read the indices recorded in `out`
LastKind == hist[Len(hist)].kind
HasRead == pc \in {"planet", "ring", "moon", "done"} /\ Len(hist) > 0

\* C17: given a sphere mesh of exactly (segments + 1) * (segments + 1)
\* vertices and a ring strip with an even number of at least 2 vertices, no
\* render panics and every vertex index it reads is within the mesh (a sphere
\* index is at most (segments + 1)^2 - 1, a ring index at most len - 1); each
\* finished sphere loop has submitted exactly 2 * segments * segments
\* triangles and the ring pass exactly 2 * (len / 2 - 1); with a ring strip of
\* fewer than 2 vertices len / 2 - 1 underflows, and the render panics before
\* any ring triangle is submitted, in a checked and in a wrapping build.
C17_IndicesInRange ==
    /\ WholeMeshes => pc # "panicked"
    /\ (WholeMeshes /\ HasRead) =>
          /\ \A j \in 1 .. 4 : out.reads[j] >= 0 /\ out.reads[j] <= out.len - 1
          /\ LastKind = "planet" =>
                out.reads[4] <= (input.segments + 1) * (input.segments + 1) - 1
          /\ LastKind = "moon" =>
                out.reads[4] <= (input.moon_segments + 1) * (input.moon_segments + 1) - 1
          /\ LastKind = "ring" => out.reads[4] <= Len(input.ring_vertices) - 1
    /\ (WholeMeshes /\ pc = "done") =>
          /\ CountOf("planet") = 2 * input.segments * input.segments
          /\ CountOf("moon") = 2 * input.moon_segments * input.moon_segments
          /\ CountOf("ring") =
                IF entry = "rings" THEN 2 * (Len(input.ring_vertices) \div 2 - 1) ELSE 0
    /\ (entry = "rings" /\ Len(input.ring_vertices) < 2) =>
          /\ pc # "done"
          /\ CountOf("ring") = 0
          /\ pc = "ring" => ENABLED RingUnderflow
    /\ (pc = "panicked" /\ entry = "rings"
            /\ Len(input.planet_vertices) = (input.segments + 1) * (input.segments + 1)) =>
          /\ Len(input.ring_vertices) < 2
          /\ CountOf("planet") = 2 * input.segments * input.segments
          /\ out.panic \in {"attempt to subtract with overflow", "index out of bounds"}
          /\ out.panic = "index out of bounds" => out.reads[1] >= 0

\* a render with rings is done: 8 planet triangles of a 9-vertex mesh and 4
\* ring triangles of a 6-vertex strip, the last of which read the last vertex
C17_Witness ==
    /\ entry = "rings"
    /\ pc = "done"
    /\ WholeMeshes
    /\ input.segments = 2
    /\ Len(input.ring_vertices) = 6
    /\ CountOf("planet") = 8
    /\ CountOf("ring") = 4
    /\ out.reads = <<2, 3, 4, 5>>
    /\ out.len = 6

\* the other ends: the planet loop done and the ring length underflowed in
\* the wrapping build; a sphere loop that read the last vertex of its mesh;
\* a mesh that misses its last vertex
RingUnderflowReached ==
    /\ pc = "panicked"
    /\ entry = "rings"
    /\ Len(input.ring_vertices) = 1
    /\ CountOf("planet") = 2 * input.segments * input.segments
    /\ out.panic = "index out of bounds"
LastVertexRead ==
    /\ HasRead
    /\ WholeMeshes
    /\ LastKind = "moon"
    /\ out.reads[4] = (input.moon_segments + 1) * (input.moon_segments + 1) - 1
    /\ input.moon_segments = 2
ShortMeshPanics ==
    /\ pc = "panicked"
    /\ entry = "sphere"
    /\ out.reads[4] = out.len

(***************************************************************************)
(* Pixels without a depth                                                  *)
(***************************************************************************)
StoredCells == DOMAIN buffer.cells \cup DOMAIN z_buffer.cells
\* a pixel that holds a colour but no depth
Undepthed(i) == DepthAt(z_buffer, i) = NEG_INFINITY /\ CellAt(buffer, i) # 0

\* C18: in the opaque renders (render_sphere, render_planet_with_moon, and
\* render_planet_with_rings until its first ring triangle), after any prefix
\* of the triangle sequence every pixel whose depth cell is still negative
\* infinity has colour 0; the ring pass never changes a depth, so every pixel
\* it colours outside the opaque triangles has a colour and no depth.
C18_UndrawnIsBlack ==
    /\ CountOf("ring") = 0 => \A i \in StoredCells : ~Undepthed(i)
    /\ \A i \in StoredCells :
          Undepthed(i) =>
              /\ entry = "rings"
              /\ CountOf("ring") > 0

\* the moon loop of render_planet_with_moon is under way: its last triangle
\* wrote a colour and a depth at one pixel of its bounding box and left
\* another pixel of it black and without a depth
C18_Witness ==
    /\ entry = "moon"
    /\ pc = "moon"
    /\ step > 0
    /\ \E r \in log :
          /\ r.pass
          /\ CellAt(buffer, r.idx) # 0
          /\ DepthAt(z_buffer, r.idx) # NEG_INFINITY
    /\ \E r \in log :
          /\ ~r.inside
          /\ CellAt(buffer, r.idx) = 0
          /\ DepthAt(z_buffer, r.idx) = NEG_INFINITY

\* the ring pass has coloured a pixel that no opaque triangle covered
RingBreaksBlack ==
    /\ entry = "rings"
    /\ pc = "ring"
    /\ \E r \in log :
          /\ r.write
          /\ Undepthed(r.idx)

====
